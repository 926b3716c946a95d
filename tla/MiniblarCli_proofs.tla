------------------------- MODULE MiniblarCli_proofs -------------------------
(***************************************************************************)
(* Proofs about MiniblarCli, for every number of processes, every command  *)
(* each of them runs, and every file system they start from: type          *)
(* correctness, and the four safety properties of create and extract.      *)
(*                                                                         *)
(* The inductive invariant has three parts: what the nodes of the file     *)
(* system are, what a process that runs create has done so far, and what   *)
(* one that runs extract has.  A step of p leaves the invariant of another *)
(* process q, since it changes only files that p has opened, and           *)
(* what is said of q's files holds as long as no other process opened them.*)
(***************************************************************************)
EXTENDS MiniblarCli, SequenceTheorems, TLAPS

-----------------------------------------------------------------------------
(* Types, over a set U of blocks.                                          *)

(* What is archived in the blocks of U consists of blocks of U.            *)
Closed(U) ==
  /\ \A b \in U :
       /\ b.entries \in Seq(EntriesIn(U))
       /\ b.of = "archive" => b.at \in 1..Len(b.entries) + 1
  /\ \A e \in EntriesIn(U) :
       e.kind \in {"file", "dir"} /\ e.path \in ArchivedPaths /\ e.body \in Seq(U)

Owners == {NoName, "user"} \cup {Files[l].owner : l \in DOMAIN Files}
Nodes(U) ==
  [kind : {"absent", "dir", "file"}, blocks : Seq(U), mode : Nat, owner : Owners,
   by : SUBSET Procs]
Archivable(U) ==
  [kind : {"file"}, path : ArchivedPaths, body : Seq(U), mode : Nat, owner : Owners]
LocalsOf(U) ==
  [pc : Places, j : Nat, size : Nat, buf : Seq(U), entries : Seq(Archivable(U)),
   ownerBuf : Owners, entry : {Unreadable} \cup EntriesIn(U), reported : SUBSET Nat,
   exit : {"none", "ok", "usage", "io", "data", "killed"}]
Typed(U) ==
  /\ Hole \in U /\ Closed(U)
  /\ fs \in [DOMAIN Files -> Nodes(U)]
  /\ proc \in [Procs -> LocalsOf(U)]

(* Everything that is there lies in a directory.                           *)
TreeInv ==
  \A l \in DOMAIN Files :
    /\ fs[l].kind # "file" => fs[l] \in {Absent, Directory}
    /\ fs[l].kind # "absent" /\ l # <<>> => fs[Front(l)].kind = "dir"

(* Only what was opened differs from the start.                            *)
FileInv ==
  \A l \in DOMAIN Files :
    /\ fs[l].by # {} => fs[l].kind = "file"
    /\ fs[l].by = {} => fs[l].blocks = Files[l].blocks
    /\ fs[l].by = {} /\ fs[l].kind = "file" => Files[l].kind = "file"

-----------------------------------------------------------------------------
(* A process that runs create.                                             *)
Start(s, n) == [k \in 1..n |-> s[k]]
Opened(p) == {l \in DOMAIN Files : p \in fs[l].by}

CreatePlace(p) ==
  /\ proc[p].pc \in {"start", "input", "open", "read", "output", "write", "done"}
  /\ Opened(p) \subseteq {Target(p)}
  /\ Opened(p) # {} => proc[p].pc \in {"write", "done"}
  /\ proc[p].pc = "write" \/ proc[p].exit = "ok" => Target(p) \in Opened(p)
  /\ proc[p].pc # "done" => proc[p].exit = "none"

InputsTaken(p) ==
  LET n == Len(proc[p].entries)
      m == Len(job[p].inputs)
  IN  /\ proc[p].pc = "start" => n = 0
      /\ proc[p].pc \in {"input", "open", "read"} => n + 1 = proc[p].j
      /\ proc[p].pc \in {"open", "read"} => proc[p].j <= m
      /\ proc[p].pc \in {"output", "write"} \/ proc[p].exit = "ok" => n = m
      /\ n <= m

(* What was read is what was there at the start, ...                       *)
InputRead(p) ==
  proc[p].pc = "read" =>
    LET l == Location(Input(p))
    IN  /\ Len(proc[p].buf) <= proc[p].size
        /\ NoOtherWriter(p, l) =>
             /\ proc[p].buf = Start(Files[l].blocks, Len(proc[p].buf))
             /\ proc[p].size = Len(Files[l].blocks)
InputsKept(p) ==
  \A k \in DOMAIN proc[p].entries :
    LET l == Location(job[p].inputs[k])
    IN  NoOtherWriter(p, l) => proc[p].entries[k].body = Files[l].blocks

(* ... and what was written the beginning of the archive.                  *)
ArchiveBegun(p) ==
  OnlyWriter(p, Target(p)) =>
    LET n == Len(fs[Target(p)].blocks)
    IN  /\ fs[Target(p)].blocks = Start(Blocks(proc[p].entries), n)
        /\ n <= Len(proc[p].entries) + 1
        /\ proc[p].pc = "write" => proc[p].size = n
        /\ proc[p].exit = "ok" => n = Len(proc[p].entries) + 1

CreateInv(p) ==
  job[p].op = "create" =>
    CreatePlace(p) /\ InputsTaken(p) /\ InputRead(p) /\ InputsKept(p) /\ ArchiveBegun(p)

-----------------------------------------------------------------------------
(* A process that runs extract.                                            *)
Extracting == {"entry", "target", "write", "metadata"}
ExtractPlace(p) ==
  /\ proc[p].pc \in {"start", "read", "count", "done"} \cup Extracting
  /\ proc[p].pc \in {"start", "read", "count"} => Opened(p) = {}
  /\ proc[p].pc \in Extracting => proc[p].j >= 1 /\ Parses(proc[p].buf)
  /\ proc[p].pc \in Extracting \ {"entry"} => proc[p].entry.kind = "file"
  /\ proc[p].pc \in {"write", "metadata"} => EntryTarget(p) \in Opened(p)
  /\ proc[p].pc \in {"read", "count"} \cup Extracting \/ Opened(p) # {} =>
       fs[Target(p)].kind = "file"
  /\ proc[p].pc = "read" => Len(proc[p].buf) <= proc[p].size
  /\ proc[p].pc # "done" => proc[p].exit = "none"

(* The archive it reads is being created, or was until q was killed.       *)
BeingCreated(q, l) ==
  /\ job[q].op = "create" /\ Target(q) = l /\ Files[l].kind = "absent"
  /\ OnlyWriter(q, l)
ArchiveRead(p) ==
  \A q \in Procs : BeingCreated(q, Target(p)) =>
    /\ proc[p].pc \in {"read", "count"} =>
         /\ proc[p].buf = Start(Blocks(proc[q].entries), Len(proc[p].buf))
         /\ proc[p].size <= Len(fs[Target(p)].blocks)
         /\ Len(proc[p].buf) <= proc[p].size
    /\ proc[p].pc \in Extracting \/ Opened(p) # {} =>
         proc[p].buf = Blocks(proc[q].entries)

(* Each file it has written alone is complete or was reported, but for the *)
(* one it is writing.                                                      *)
Settled(p, l) ==
  \E k \in EntriesFor(p, l) :
    k \in proc[p].reported \/ fs[l].blocks = proc[p].buf[1].entries[k].body
EntryTaken(p) ==
  /\ proc[p].j <= EntryCount(proc[p].buf)
  /\ proc[p].entry = proc[p].buf[1].entries[proc[p].j]
TargetsWritten(p) ==
  IsWhole(proc[p].buf) =>
    /\ proc[p].pc \in Extracting \ {"entry"} => EntryTaken(p)
    /\ proc[p].pc = "write" /\ OnlyWriter(p, EntryTarget(p)) =>
         fs[EntryTarget(p)].blocks = Start(proc[p].entry.body, proc[p].size)
    /\ proc[p].pc = "write" => proc[p].size <= Len(proc[p].entry.body)
    /\ proc[p].pc \in Extracting \/ proc[p].exit = "ok" =>
         \A l \in DOMAIN Files :
           /\ OnlyWriter(p, l)
           /\ ~(proc[p].pc = "write" /\ l = EntryTarget(p))
           => Settled(p, l)

ExtractInv(p) ==
  job[p].op = "extract" => ExtractPlace(p) /\ ArchiveRead(p) /\ TargetsWritten(p)

ProcInv(p) ==
  /\ job[p].op = "none" => proc[p].pc = "done"
  /\ CreateInv(p) /\ ExtractInv(p)

StateInv(U) ==
  /\ job \in Jobs /\ Typed(U)
  /\ TreeInv /\ FileInv
  /\ \A p \in Procs : ProcInv(p)

(* The inductive invariant: the set of blocks grows as archives are made.  *)
IInv == \E U : StateInv(U)

-----------------------------------------------------------------------------
(* Sequences.                                                              *)

(* The first n elements of a sequence are a sequence of that length.       *)
LEMMA StartTyped ==
  ASSUME NEW S, NEW s \in Seq(S), NEW n \in 0..Len(s)
  PROVE  /\ Start(s, n) \in Seq(S) /\ Len(Start(s, n)) = n
         /\ \A k \in 1..n : Start(s, n)[k] = s[k]
<1>1. Start(s, n) \in [1..n -> S]
  BY ElementOfSeq DEF Start
<1> QED  BY <1>1 DEF Start

(* None of them, and all of them.                                          *)
LEMMA StartEnds ==
  ASSUME NEW S, NEW s \in Seq(S)
  PROVE  Start(s, 0) = <<>> /\ Start(s, Len(s)) = s
<1>1. Start(s, 0) \in Seq(S) /\ Len(Start(s, 0)) = 0
  BY StartTyped, LenProperties
<1>2. Start(s, 0) = <<>>
  BY <1>1, EmptySeq
<1>3. /\ Start(s, Len(s)) \in Seq(S) /\ Len(Start(s, Len(s))) = Len(s)
      /\ \A k \in 1..Len(s) : Start(s, Len(s))[k] = s[k]
  BY StartTyped, LenProperties
<1>4. Start(s, Len(s)) = s
  BY <1>3, SeqEqual
<1> QED  BY <1>2, <1>4

(* Reading one more element, ...                                           *)
LEMMA StartAppend ==
  ASSUME NEW S, NEW s \in Seq(S), NEW n \in Nat, n + 1 <= Len(s)
  PROVE  Append(Start(s, n), s[n + 1]) = Start(s, n + 1)
<1>1. n \in 0..Len(s) /\ n + 1 \in 0..Len(s) /\ s[n + 1] \in S
  BY LenProperties, ElementOfSeq
<1>2. /\ Start(s, n) \in Seq(S) /\ Len(Start(s, n)) = n
      /\ \A k \in 1..n : Start(s, n)[k] = s[k]
  BY <1>1, StartTyped
<1>3. /\ Start(s, n + 1) \in Seq(S) /\ Len(Start(s, n + 1)) = n + 1
      /\ \A k \in 1..n + 1 : Start(s, n + 1)[k] = s[k]
  BY <1>1, StartTyped
<1> DEFINE t == Append(Start(s, n), s[n + 1])
<1>4. /\ t \in Seq(S) /\ Len(t) = n + 1 /\ t[n + 1] = s[n + 1]
      /\ \A k \in 1..n : t[k] = s[k]
  BY <1>1, <1>2, AppendProperties
<1>5. \A k \in 1..n + 1 : t[k] = Start(s, n + 1)[k]
  BY <1>3, <1>4
<1> QED  BY <1>3, <1>4, <1>5, SeqEqual

(* ... and writing one more.                                               *)
LEMMA StartPut ==
  ASSUME NEW S, NEW s \in Seq(S), NEW n \in Nat, n + 1 <= Len(s)
  PROVE  Put(Start(s, n), n + 1, s[n + 1]) = Start(s, n + 1)
<1>1. n \in 0..Len(s)
  BY LenProperties
<1>2. Len(Start(s, n)) = n /\ \A k \in 1..n : Start(s, n)[k] = s[k]
  BY <1>1, StartTyped
<1>3. Put(Start(s, n), n + 1, s[n + 1]) =
        [k \in 1..n + 1 |-> IF k = n + 1 THEN s[n + 1] ELSE Start(s, n)[k]]
  BY <1>2 DEF Put
<1>4. \A k \in 1..n + 1 :
        (IF k = n + 1 THEN s[n + 1] ELSE Start(s, n)[k]) = s[k]
  BY <1>2
<1> HIDE DEF Start
<1>5. Put(Start(s, n), n + 1, s[n + 1]) = [k \in 1..n + 1 |-> s[k]]
  BY <1>3, <1>4
<1> QED  BY <1>5 DEF Start

(* Writing a block of U in a file of such blocks leaves one.               *)
LEMMA PutTyped ==
  ASSUME NEW U, Hole \in U, NEW s \in Seq(U), NEW b \in U, NEW k \in Nat \ {0}
  PROVE  Put(s, k, b) \in Seq(U) /\ Len(Put(s, k, b)) >= Len(s)
<1> DEFINE m == IF k > Len(s) THEN k ELSE Len(s)
<1>1. Len(s) \in Nat /\ m \in Nat /\ m >= Len(s)
  BY LenProperties
<1>2. \A n \in 1..Len(s) : s[n] \in U
  BY ElementOfSeq
<1>3. Put(s, k, b) \in [1..m -> U]
  BY <1>1, <1>2 DEF Put
<1> QED  BY <1>1, <1>3

(* An archive has a header and one block for each entry.                   *)
LEMMA BlocksTyped ==
  ASSUME NEW E, NEW es \in Seq(E)
  PROVE  /\ Blocks(es) \in Seq({Piece(es, k) : k \in Nat})
         /\ Len(Blocks(es)) = Len(es) + 1
         /\ \A k \in 1..Len(es) + 1 :
              Blocks(es)[k] = Piece(es, k)
<1> DEFINE B == {Piece(es, k) : k \in Nat}
           n == Len(es) + 1
<1>1. n \in Nat
  BY LenProperties
<1>2. \A k \in 1..n : Piece(es, k) \in B
  OBVIOUS
<1>3. Blocks(es) = [k \in 1..n |-> Piece(es, k)]
  BY DEF Blocks
<1> HIDE DEF B, n
<1>4. Blocks(es) \in [1..n -> B]
  BY <1>2, <1>3
<1>5. Blocks(es) \in Seq(B) /\ Len(Blocks(es)) = n
  BY <1>1, <1>4
<1>6. \A k \in 1..n : Blocks(es)[k] = Piece(es, k)
  BY <1>3
<1> QED  BY <1>5, <1>6 DEF B, n

(* A sequence with a header of an archive of which it is a beginning and   *)
(* that is long enough is that archive.                                    *)
LEMMA WholeFromStart ==
  ASSUME NEW E, NEW es \in Seq(E), NEW n \in 0..Len(es) + 1,
         Parses(Start(Blocks(es), n))
  PROVE  Start(Blocks(es), n) = Blocks(es)
<1> DEFINE B == {Piece(es, k) : k \in Nat}
           b == Start(Blocks(es), n)
<1>1. /\ Blocks(es) \in Seq(B) /\ Len(Blocks(es)) = Len(es) + 1
      /\ Len(es) \in Nat
      /\ \A k \in 1..Len(es) + 1 :
           Blocks(es)[k] = Piece(es, k)
  BY BlocksTyped, LenProperties
<1> HIDE DEF B
<1>2. Len(b) = n /\ b \in Seq(B) /\ \A k \in 1..n : b[k] = Blocks(es)[k]
  BY <1>1, StartTyped
<1>3. n # 0
  BY <1>2, EmptySeq DEF Parses
<1>4. 1 \in 1..n /\ 1 \in 1..Len(es) + 1
  BY <1>1, <1>3
<1>5. b[1] = Piece(es, 1)
  BY <1>1, <1>2, <1>4
<1>6. b[1].entries = es
  BY <1>5 DEF Piece, Block
<1>7. Len(b) >= Len(b[1].entries) + 1
  BY DEF Parses, LengthInBounds
<1>8. n = Len(es) + 1
  BY <1>1, <1>2, <1>6, <1>7
<1> QED  BY <1>1, <1>8, StartEnds

-----------------------------------------------------------------------------
(* Steps of the file system.                                               *)

(* What a step of p may do to the file system: p opens files and writes to *)
(* those it has opened, a file remains a file, and the tree a tree.        *)
FsStep(p, U) ==
  /\ fs' \in [DOMAIN Files -> Nodes(U)]
  /\ TreeInv' /\ FileInv'
  /\ \A l \in DOMAIN Files :
       /\ fs[l].by \subseteq fs'[l].by /\ fs'[l].by \subseteq fs[l].by \cup {p}
       /\ p \notin fs'[l].by => fs'[l].blocks = fs[l].blocks
       /\ fs[l].kind = "file" => fs'[l].kind = "file"

(* Nothing is opened, and nothing written.                                 *)
Quiet ==
  \A l \in DOMAIN Files : fs'[l].by = fs[l].by /\ fs'[l].blocks = fs[l].blocks

FsInv(U) ==
  /\ Hole \in U /\ fs \in [DOMAIN Files -> Nodes(U)]
  /\ TreeInv /\ FileInv

(* Nodes that are not there, and directories, are nodes without blocks.    *)
LEMMA EmptyNodes ==
  ASSUME NEW U
  PROVE  /\ Absent \in Nodes(U) /\ Directory \in Nodes(U)
         /\ Absent.kind = "absent" /\ Directory.kind = "dir"
         /\ Directory.by = Absent.by /\ Directory.blocks = Absent.blocks
         /\ Absent.by = {} /\ Absent.blocks = <<>>
<1>1. NoName \in Owners
  BY DEF Owners
<1>2. <<>> \in Seq(U)
  BY EmptySeq
<1> QED  BY <1>1, <1>2 DEF Absent, Directory, Nodes

(* A step that leaves the file system alone.                               *)
LEMMA SameFiles ==
  ASSUME NEW U, NEW p \in Procs, FsInv(U), fs' = fs
  PROVE  FsStep(p, U) /\ Quiet
<1>1. TreeInv' /\ FileInv'
  BY DEF FsInv, TreeInv, FileInv
<1> QED  BY <1>1 DEF FsInv, FsStep, Quiet

(* The directory of l is a beginning of it, and beginnings of beginnings   *)
(* are beginnings.                                                         *)
LEMMA FrontPrefix ==
  ASSUME NEW k \in Seq(STRING), k # <<>>
  PROVE  Front(k) \in Seq(STRING) /\ IsStrictPrefix(Front(k), k)
<1> DEFINE n == Len(k) - 1
           f == SubSeq(k, 1, n)
<1>1. Len(k) \in Nat /\ Len(k) # 0
  BY LenProperties, EmptySeq
<1>2. /\ f \in Seq(STRING) /\ Len(f) = n
      /\ \A i \in 1..n : f[i] = k[i]
  <2>1. \A i \in 1..n : k[i] \in STRING
    BY <1>1, ElementOfSeq
  <2> HIDE DEF f
  <2>5. n \in Nat
    BY <1>1
  <2> HIDE DEF n
  <2>2. n - 1 + 1 = n /\ (1 <= n \/ n = 0)
    BY <2>5
  <2>3. \A i \in 1..n : 1 + i - 1 = i
    BY <2>5
  <2>4. /\ f \in Seq(STRING) /\ Len(f) = IF 1 <= n THEN n - 1 + 1 ELSE 0
        /\ \A i \in 1..n - 1 + 1 : f[i] = k[1 + i - 1]
    BY <2>1, <2>5, SubSeqProperties DEF f
  <2> QED  BY <2>2, <2>3, <2>4, <2>5
<1>3. SubSeq(f, 1, Len(f)) = f
  BY <1>2, SubSeqFull
<1>4. SubSeq(k, 1, Len(f)) = f
  BY <1>2
<1>5. Len(f) <= Len(k) /\ f # k
  BY <1>1, <1>2
<1> QED  BY <1>2, <1>3, <1>4, <1>5 DEF Front, IsStrictPrefix, IsPrefix

(* k is a beginning of l when l has the same elements as far as k goes.     *)
LEMMA PrefixMeaning ==
  ASSUME NEW k \in Seq(STRING), NEW l \in Seq(STRING)
  PROVE  IsPrefix(k, l) <=> Len(k) <= Len(l) /\ \A i \in 1..Len(k) : k[i] = l[i]
<1>1. Len(k) \in Nat /\ Len(l) \in Nat
  BY LenProperties
<1>2. SubSeq(k, 1, Len(k)) = k
  BY SubSeqFull
<1> SUFFICES ASSUME Len(k) <= Len(l)
             PROVE  SubSeq(k, 1, Len(k)) = SubSeq(l, 1, Len(k)) <=>
                      \A i \in 1..Len(k) : k[i] = l[i]
  BY DEF IsPrefix
<1> DEFINE t == SubSeq(l, 1, Len(k))
<1>3. \A i \in 1..Len(k) : l[i] \in STRING
  BY <1>1, ElementOfSeq
<1>4. t \in Seq(STRING) /\ Len(t) = Len(k) /\ \A i \in 1..Len(k) : t[i] = l[i]
  BY <1>1, <1>3, SubSeqProperties
<1> HIDE DEF t
<1>5. k = t <=> \A i \in 1..Len(k) : k[i] = t[i]
  BY <1>4, SeqEqual
<1>6. k = t <=> \A i \in 1..Len(k) : k[i] = l[i]
  BY <1>4, <1>5
<1> QED  BY <1>2, <1>6 DEF t

(* A beginning of a beginning of l is a beginning of l.                     *)
LEMMA PrefixTransitive ==
  ASSUME NEW j \in Seq(STRING), NEW k \in Seq(STRING), NEW l \in Seq(STRING),
         IsPrefix(j, k), IsPrefix(k, l)
  PROVE  IsPrefix(j, l)
<1>1. Len(j) \in Nat /\ Len(k) \in Nat /\ Len(l) \in Nat
  BY LenProperties
<1>2. Len(j) <= Len(k) /\ \A i \in 1..Len(j) : j[i] = k[i]
  BY PrefixMeaning
<1>3. Len(k) <= Len(l) /\ \A i \in 1..Len(k) : k[i] = l[i]
  BY PrefixMeaning
<1>4. Len(j) <= Len(l) /\ \A i \in 1..Len(j) : j[i] = l[i]
  BY <1>1, <1>2, <1>3
<1> QED  BY <1>4, PrefixMeaning

(* Two sequences that begin with each other are the same.                   *)
LEMMA PrefixAntisymmetric ==
  ASSUME NEW k \in Seq(STRING), NEW l \in Seq(STRING), IsPrefix(k, l), IsPrefix(l, k)
  PROVE  k = l
<1>1. Len(k) \in Nat /\ Len(l) \in Nat
  BY LenProperties
<1>2. Len(k) <= Len(l) /\ \A i \in 1..Len(k) : k[i] = l[i]
  BY PrefixMeaning
<1>3. Len(l) <= Len(k)
  BY PrefixMeaning
<1>4. Len(k) = Len(l) /\ \A i \in 1..Len(k) : k[i] = l[i]
  BY <1>1, <1>2, <1>3
<1> QED  BY <1>4, SeqEqual

(* mkdirp makes each missing directory of l in a directory, and nothing    *)
(* else.                                                                   *)
LEMMA MkdirStep ==
  ASSUME NEW U, NEW p \in Procs, FsInv(U), NEW l \in Seq(STRING), fs' = mkdirp(l)
  PROVE  FsStep(p, U) /\ Quiet
<1>1. DOMAIN fs = DOMAIN Files /\ \A k \in DOMAIN Files : fs[k] \in Nodes(U)
  BY DEF FsInv
<1> DEFINE New(k) == IsPrefix(k, l) /\ fs[k].kind = "absent" /\ ~Blocked(k)
<1>2. fs' = [k \in DOMAIN Files |-> IF New(k) THEN Directory ELSE fs[k]]
  BY <1>1 DEF mkdirp
<1>3. /\ fs' \in [DOMAIN Files -> Nodes(U)]
      /\ \A k \in DOMAIN Files : fs'[k] = IF New(k) THEN Directory ELSE fs[k]
  BY <1>1, <1>2, EmptyNodes
<1>4. \A k \in DOMAIN Files : New(k) => fs[k] = Absent
  BY EmptyNodes DEF FsInv, TreeInv
<1>5. \A k \in DOMAIN Files :
        fs'[k].by = fs[k].by /\ fs'[k].blocks = fs[k].blocks
  BY <1>3, <1>4, EmptyNodes
<1>6. \A k \in DOMAIN Files :
        /\ fs'[k].kind = "file" <=> fs[k].kind = "file"
        /\ fs'[k].kind # "file" => fs'[k] \in {Absent, Directory}
        /\ fs[k].kind = "dir" => fs'[k].kind = "dir"
  <2> TAKE k \in DOMAIN Files
  <2> HIDE DEF New
  <2>1. CASE New(k)
    BY <1>3, <1>4, <2>1, EmptyNodes
  <2>2. CASE ~New(k)
    BY <1>3, <2>2 DEF FsInv, TreeInv
  <2> QED  BY <2>1, <2>2
<1>7. ASSUME NEW k \in DOMAIN Files, k # <<>>, fs'[k].kind # "absent"
      PROVE  fs'[Front(k)].kind = "dir"
  <2> DEFINE d == Front(k)
  <2>1. k \in Seq(STRING) /\ d \in DOMAIN Files /\ d \in Seq(STRING)
    BY <1>7, FilesAssumption
  <2>2. CASE ~New(k)
    <3>1. fs[d].kind = "dir"
      BY <1>3, <1>7, <2>2 DEF FsInv, TreeInv
    <3> QED  BY <1>6, <2>1, <3>1
  <2>3. CASE New(k)
    <3>1. IsPrefix(d, k) /\ IsStrictPrefix(d, k)
      BY <1>7, <2>1, FrontPrefix DEF IsStrictPrefix
    <3>2. IsPrefix(d, l)
      BY <2>1, <2>3, <3>1, PrefixTransitive
    <3>3. fs[d].kind # "file"
      BY <1>1, <2>1, <2>3, <3>1 DEF Blocked
    <3>4. ~Blocked(d)
      <4> SUFFICES ASSUME NEW j \in DOMAIN Files, IsStrictPrefix(j, d),
                          fs[j].kind = "file"
                   PROVE  FALSE
        BY <1>1 DEF Blocked
      <4>1. j \in Seq(STRING) /\ IsPrefix(j, d)
        BY FilesAssumption DEF IsStrictPrefix
      <4>2. IsPrefix(j, k)
        BY <2>1, <3>1, <4>1, PrefixTransitive
      <4>3. j # k
        BY <2>1, <3>1, <4>1, PrefixAntisymmetric DEF IsStrictPrefix
      <4>4. Blocked(k)
        BY <1>1, <4>2, <4>3 DEF Blocked, IsStrictPrefix
      <4> QED  BY <2>3, <4>4
    <3>5. CASE fs[d].kind = "absent"
      <4>1. New(d)
        BY <3>2, <3>4, <3>5
      <4> QED  BY <1>3, <2>1, <4>1, EmptyNodes
    <3>6. CASE fs[d].kind = "dir"
      BY <1>6, <2>1, <3>6
    <3>7. fs[d].kind \in {"absent", "dir", "file"}
      BY <1>1, <2>1 DEF Nodes
    <3> QED  BY <3>3, <3>5, <3>6, <3>7
  <2> QED  BY <2>2, <2>3
<1> HIDE DEF New
<1>8. TreeInv'
  BY <1>6, <1>7 DEF TreeInv
<1>9. FileInv'
  BY <1>5, <1>6 DEF FsInv, FileInv
<1> QED  BY <1>3, <1>5, <1>6, <1>8, <1>9 DEF FsStep, Quiet

(* A file other than l keeps its node.                                     *)
Elsewhere(l) == \A k \in DOMAIN Files \ {l} : fs'[k] = fs[k]

(* Opening a file for writing.                                             *)
LEMMA OpenStep ==
  ASSUME NEW U, NEW p \in Procs, FsInv(U), NEW l \in DOMAIN Files,
         Writable(l), fs' = Truncated(l, p)
  PROVE  /\ FsStep(p, U) /\ Elsewhere(l)
         /\ p \in fs'[l].by /\ fs'[l].blocks = <<>> /\ fs'[l].kind = "file"
<1>1. fs \in [DOMAIN Files -> Nodes(U)] /\ fs[l] \in Nodes(U) /\ fs[l].kind # "dir"
  BY DEF FsInv, Writable
<1>2. <<>> \in Seq(U) /\ "user" \in Owners /\ DefaultMode \in Nat
  BY EmptySeq DEF Owners, DefaultMode
<1> DEFINE
      node == IF fs[l].kind = "absent"
              THEN [kind |-> "file", blocks |-> <<>>, mode |-> DefaultMode,
                    owner |-> "user", by |-> {p}]
              ELSE [fs[l] EXCEPT !.blocks = <<>>, !.by = @ \cup {p}]
<1>3. fs' = [fs EXCEPT ![l] = node]
  BY DEF Truncated
<1>4. /\ node \in Nodes(U)
      /\ node.kind = "file" /\ node.blocks = <<>>
      /\ node.by = fs[l].by \cup {p}
  <2>1. CASE fs[l].kind = "absent"
    <3>1. fs[l] = Absent
      BY <1>1, <2>1, EmptyNodes DEF FsInv, TreeInv
    <3> QED  BY <1>2, <2>1, <3>1, EmptyNodes DEF Nodes
  <2>2. CASE fs[l].kind = "file"
    BY <1>1, <1>2, <2>2 DEF Nodes
  <2> QED  BY <1>1, <2>1, <2>2 DEF Nodes
<1> HIDE DEF node
<1>5. fs' \in [DOMAIN Files -> Nodes(U)] /\ fs'[l] = node /\ Elsewhere(l)
  BY <1>1, <1>3, <1>4 DEF Elsewhere
<1>6. TreeInv'
  <2>1. ASSUME NEW k \in DOMAIN Files, fs'[k].kind # "absent", k # <<>>
        PROVE  fs'[Front(k)].kind = "dir"
    <3>1. fs[Front(k)].kind = "dir"
      BY <1>4, <1>5, <2>1 DEF FsInv, TreeInv, Writable, Elsewhere
    <3> QED  BY <1>1, <1>5, <2>1, <3>1, FilesAssumption DEF Elsewhere
  <2>2. \A k \in DOMAIN Files : fs'[k].kind # "file" => fs'[k] \in {Absent, Directory}
    BY <1>4, <1>5 DEF FsInv, TreeInv, Elsewhere
  <2> QED  BY <2>1, <2>2 DEF TreeInv
<1>7. FileInv'
  <2> SUFFICES ASSUME NEW k \in DOMAIN Files
               PROVE  /\ fs'[k].by # {} => fs'[k].kind = "file"
                      /\ fs'[k].by = {} => fs'[k].blocks = Files[k].blocks
                      /\ fs'[k].by = {} /\ fs'[k].kind = "file" =>
                           Files[k].kind = "file"
    BY DEF FileInv
  <2>1. CASE k = l
    BY <1>4, <1>5, <2>1
  <2>2. CASE k # l
    BY <1>5, <2>2 DEF FsInv, FileInv, Elsewhere
  <2> QED  BY <2>1, <2>2
<1>8. FsStep(p, U)
  <2> SUFFICES ASSUME NEW k \in DOMAIN Files
               PROVE  /\ fs[k].by \subseteq fs'[k].by
                      /\ fs'[k].by \subseteq fs[k].by \cup {p}
                      /\ p \notin fs'[k].by => fs'[k].blocks = fs[k].blocks
                      /\ fs[k].kind = "file" => fs'[k].kind = "file"
    BY <1>5, <1>6, <1>7 DEF FsStep
  <2>1. CASE k = l
    BY <1>4, <1>5, <2>1
  <2>2. CASE k # l
    BY <1>5, <2>2 DEF Elsewhere
  <2> QED  BY <2>1, <2>2
<1> QED  BY <1>4, <1>5, <1>8

(* Writing a block in a file that p has opened.                            *)
LEMMA WriteStep ==
  ASSUME NEW U, NEW p \in Procs, FsInv(U), NEW l \in DOMAIN Files,
         p \in fs[l].by, NEW k \in Nat \ {0}, NEW b \in U,
         fs' = [fs EXCEPT ![l].blocks = Put(@, k, b)]
  PROVE  /\ FsStep(p, U) /\ Elsewhere(l)
         /\ fs'[l].by = fs[l].by /\ fs'[l].blocks = Put(fs[l].blocks, k, b)
         /\ Len(fs'[l].blocks) >= Len(fs[l].blocks)
<1>1. fs \in [DOMAIN Files -> Nodes(U)] /\ fs[l] \in Nodes(U) /\ Hole \in U
  BY DEF FsInv
<1>2. fs[l].blocks \in Seq(U)
  BY <1>1 DEF Nodes
<1>3. /\ Put(fs[l].blocks, k, b) \in Seq(U)
      /\ Len(Put(fs[l].blocks, k, b)) >= Len(fs[l].blocks)
  BY <1>1, <1>2, PutTyped
<1> DEFINE node == [fs[l] EXCEPT !.blocks = Put(fs[l].blocks, k, b)]
<1>4. /\ node \in Nodes(U) /\ node.by = fs[l].by /\ node.kind = fs[l].kind
      /\ node.blocks = Put(fs[l].blocks, k, b)
  BY <1>1, <1>3 DEF Nodes
<1>5. fs' = [fs EXCEPT ![l] = node]
  BY <1>1
<1>6. fs[l].kind = "file"
  BY DEF FsInv, FileInv
<1> HIDE DEF node
<1>7. fs' \in [DOMAIN Files -> Nodes(U)] /\ fs'[l] = node /\ Elsewhere(l)
  BY <1>1, <1>4, <1>5 DEF Elsewhere
<1>8. \A m \in DOMAIN Files :
        /\ fs'[m].by = fs[m].by /\ fs'[m].kind = fs[m].kind
        /\ m # l => fs'[m] = fs[m]
  BY <1>4, <1>7 DEF Elsewhere
<1>9. TreeInv'
  <2>1. ASSUME NEW m \in DOMAIN Files, fs'[m].kind # "absent", m # <<>>
        PROVE  fs'[Front(m)].kind = "dir"
    <3>1. fs[Front(m)].kind = "dir"
      BY <1>8, <2>1 DEF FsInv, TreeInv
    <3> QED  BY <1>8, <2>1, <3>1, FilesAssumption
  <2>2. \A m \in DOMAIN Files : fs'[m].kind # "file" => fs'[m] \in {Absent, Directory}
    BY <1>6, <1>8 DEF FsInv, TreeInv
  <2> QED  BY <2>1, <2>2 DEF TreeInv
<1>10. FileInv'
  BY <1>8 DEF FsInv, FileInv
<1>11. FsStep(p, U)
  BY <1>7, <1>8, <1>9, <1>10 DEF FsStep
<1> QED  BY <1>3, <1>4, <1>7, <1>11

-----------------------------------------------------------------------------
(* A step of one process leaves what is said of the others.                *)

(* What a command names has a node, and what create archives a path.       *)
LEMMA CommandPlaces ==
  ASSUME job \in Jobs, NEW p \in Procs
  PROVE  /\ job[p].op \in {"none", "create", "extract"}
         /\ Target(p) \in DOMAIN Files
         /\ job[p].inputs \in Seq(ToSet(job[p].inputs))
         /\ Len(job[p].inputs) \in Nat
         /\ \A k \in 1..Len(job[p].inputs) :
              /\ Location(job[p].inputs[k]) \in DOMAIN Files
              /\ normalize_path_inplace(job[p].inputs[k]) \in ArchivedPaths
         /\ job[p].op = "extract" =>
              /\ OutDir(p) \in DOMAIN Files
              /\ \A path \in ArchivedPaths : OutDir(p) \o Location(path) \in DOMAIN Files
<1> DEFINE s == job[p].inputs
<1>1. /\ job[p].op \in {"none", "create", "extract"}
      /\ s \in Seq(ToSet(s))
      /\ Location(job[p].file) \in DOMAIN Files
      /\ \A i \in ToSet(s) : Location(i) \in DOMAIN Files
      /\ job[p].op = "extract" =>
           /\ Location(job[p].dir) \in DOMAIN Files
           /\ \A path \in ArchivedPaths :
                Location(job[p].dir) \o Location(path) \in DOMAIN Files
  BY JobsAssumption
<1>2. \A i \in ToSet(s) : normalize_path_inplace(i) \in ArchivedPaths
  <2> DEFINE paths(j, q) == {normalize_path_inplace(i) : i \in ToSet(j[q].inputs)}
             all == {paths(j, q) : j \in Jobs, q \in Procs}
  <2>1. UNION all \subseteq ArchivedPaths
    BY DEF ArchivedPaths
  <2>2. paths(job, p) \in all
    OBVIOUS
  <2>3. \A i \in ToSet(s) : normalize_path_inplace(i) \in paths(job, p)
    OBVIOUS
  <2> HIDE DEF paths, all
  <2> QED  BY <2>1, <2>2, <2>3
<1> HIDE DEF s
<1>3. Len(s) \in Nat /\ \A k \in 1..Len(s) : s[k] \in ToSet(s)
  BY <1>1, LenProperties, ElementOfSeq
<1> QED  BY <1>1, <1>2, <1>3 DEF Target, OutDir, s

(* A step of p, as another process sees it: what p does with files, and    *)
(* that an archive p is creating only grows.                               *)
StepOf(p, V) ==
  /\ job' = job
  /\ \A q \in Procs \ {p} : proc'[q] = proc[q]
  /\ FsStep(p, V)
Grows(p) ==
  job[p].op = "create" /\ fs'[Target(p)].by = {p} =>
    \/ fs[Target(p)].by = {}
    \/ /\ fs[Target(p)].by = {p}
       /\ proc'[p].entries = proc[p].entries
       /\ Len(fs'[Target(p)].blocks) >= Len(fs[Target(p)].blocks)

(* No process but p opens a file, and what p has not opened stays.         *)
LEMMA OtherFiles ==
  ASSUME NEW V, NEW p \in Procs, NEW q \in Procs \ {p}, StepOf(p, V)
  PROVE  /\ Opened(q)' = Opened(q)
         /\ \A l \in DOMAIN Files :
              /\ NoOtherWriter(q, l)' => NoOtherWriter(q, l)
              /\ OnlyWriter(q, l)' =>
                   OnlyWriter(q, l) /\ fs'[l].blocks = fs[l].blocks
              /\ fs[l].kind = "file" => fs'[l].kind = "file"
<1>1. \A l \in DOMAIN Files :
        /\ fs[l].by \subseteq fs'[l].by /\ fs'[l].by \subseteq fs[l].by \cup {p}
        /\ p \notin fs'[l].by => fs'[l].blocks = fs[l].blocks
        /\ fs[l].kind = "file" => fs'[l].kind = "file"
  BY DEF StepOf, FsStep
<1>2. Opened(q)' = Opened(q)
  BY <1>1 DEF Opened
<1> QED  BY <1>1, <1>2 DEF NoOtherWriter, OnlyWriter

(* What is said of a process q that runs create survives a step of another  *)
(* process p: its inputs and its output are spoken of only while no one     *)
(* else has opened them.                                                    *)
LEMMA OtherCreate ==
  ASSUME NEW V, NEW p \in Procs, NEW q \in Procs \ {p}, StepOf(p, V),
         job \in Jobs, NEW U, Typed(U), CreateInv(q)
  PROVE  CreateInv(q)'
<1> SUFFICES ASSUME job[q].op = "create"
             PROVE  (CreatePlace(q) /\ InputsTaken(q) /\ InputRead(q)
                     /\ InputsKept(q) /\ ArchiveBegun(q))'
  BY DEF CreateInv, StepOf
<1>1. job' = job /\ proc'[q] = proc[q]
  BY DEF StepOf
<1>2. CreatePlace(q) /\ InputsTaken(q) /\ InputRead(q) /\ InputsKept(q) /\ ArchiveBegun(q)
  BY DEF CreateInv
<1>3. /\ Target(q)' = Target(q) /\ Input(q)' = Input(q)
      /\ Target(q) \in DOMAIN Files /\ Len(job[q].inputs) \in Nat
      /\ \A k \in 1..Len(job[q].inputs) : Location(job[q].inputs[k]) \in DOMAIN Files
  BY <1>1, CommandPlaces DEF Target, Input
<1>4. proc[q] \in LocalsOf(U)
  BY DEF Typed
<1>5. CreatePlace(q)'
  BY <1>1, <1>2, <1>3, OtherFiles DEF CreatePlace
<1>6. InputsTaken(q)'
  BY <1>1, <1>2 DEF InputsTaken
<1>7. proc[q].entries \in Seq(Archivable(U)) /\ proc[q].j \in Nat
  BY <1>4 DEF LocalsOf
<1>8. Len(proc[q].entries) \in Nat /\ DOMAIN proc[q].entries = 1..Len(proc[q].entries)
  BY <1>7, LenProperties
<1>9. InputRead(q)'
  <2> SUFFICES ASSUME proc[q].pc = "read"
               PROVE  InputRead(q)'
    BY <1>1 DEF InputRead
  <2>1. proc[q].j \in 1..Len(job[q].inputs)
    BY <1>2, <1>3, <1>7, <1>8 DEF InputsTaken
  <2>2. Location(Input(q)) \in DOMAIN Files
    BY <1>3, <2>1 DEF Input
  <2> QED  BY <1>1, <1>2, <1>3, <2>2, OtherFiles DEF InputRead
<1>10. InputsKept(q)'
  <2> SUFFICES ASSUME NEW k \in DOMAIN proc[q].entries,
                      NoOtherWriter(q, Location(job[q].inputs[k]))'
               PROVE  proc[q].entries[k].body = Files[Location(job[q].inputs[k])].blocks
    BY <1>1 DEF InputsKept
  <2>1. k \in 1..Len(job[q].inputs)
    BY <1>2, <1>3, <1>8 DEF InputsTaken
  <2>2. NoOtherWriter(q, Location(job[q].inputs[k]))
    BY <1>1, <1>3, <2>1, OtherFiles
  <2> QED  BY <1>2, <2>2 DEF InputsKept
<1>11. ArchiveBegun(q)'
  BY <1>1, <1>2, <1>3, OtherFiles DEF ArchiveBegun
<1> QED  BY <1>5, <1>6, <1>9, <1>10, <1>11

(* The same for a process q that runs extract; if p is creating the very    *)
(* archive q reads, that archive only grows.                                *)
LEMMA OtherExtract ==
  ASSUME NEW V, NEW p \in Procs, NEW q \in Procs \ {p}, StepOf(p, V), Grows(p),
         job \in Jobs, NEW U, Typed(U), FileInv, ExtractInv(q)
  PROVE  ExtractInv(q)'
<1> SUFFICES ASSUME job[q].op = "extract"
             PROVE  (ExtractPlace(q) /\ ArchiveRead(q) /\ TargetsWritten(q))'
  BY DEF ExtractInv, StepOf
<1>1. job' = job /\ proc'[q] = proc[q]
  BY DEF StepOf
<1>2. ExtractPlace(q) /\ ArchiveRead(q) /\ TargetsWritten(q)
  BY DEF ExtractInv
<1>3. /\ Target(q)' = Target(q) /\ OutDir(q)' = OutDir(q)
      /\ Target(q) \in DOMAIN Files
  BY <1>1, CommandPlaces DEF Target, OutDir
<1>4. EntryTarget(q)' = EntryTarget(q)
  BY <1>1, <1>3 DEF EntryTarget
<1>5. Opened(q)' = Opened(q)
  BY OtherFiles
<1>6. ExtractPlace(q)'
  BY <1>1, <1>2, <1>3, <1>4, <1>5, OtherFiles DEF ExtractPlace
<1>7. ArchiveRead(q)'
  <2> DEFINE t == Target(q)
  <2> SUFFICES ASSUME NEW r \in Procs, BeingCreated(r, t)'
               PROVE  /\ proc[q].pc \in {"read", "count"} =>
                           /\ proc[q].buf = Start(Blocks(proc'[r].entries), Len(proc[q].buf))
                           /\ proc[q].size <= Len(fs'[t].blocks)
                           /\ Len(proc[q].buf) <= proc[q].size
                      /\ proc[q].pc \in Extracting \/ Opened(q) # {} =>
                           proc[q].buf = Blocks(proc'[r].entries)
    BY <1>1, <1>3, <1>5 DEF ArchiveRead
  <2>1. /\ job[r].op = "create" /\ Target(r) = t /\ Files[t].kind = "absent"
        /\ fs'[t].by = {r}
    BY <1>1, <1>3 DEF BeingCreated, OnlyWriter, Target
  <2>2. CASE fs[t].by = {}
    <3>1. fs[t].kind # "file"
      BY <1>3, <2>1, <2>2 DEF FileInv
    <3> QED  BY <1>2, <3>1 DEF ExtractPlace
  <2>3. CASE fs[t].by # {}
    <3>1. /\ proc'[r].entries = proc[r].entries /\ fs[t].by = {r}
          /\ \/ fs'[t].blocks = fs[t].blocks
             \/ Len(fs'[t].blocks) >= Len(fs[t].blocks)
      <4>1. CASE r = p
        BY <2>1, <2>3, <4>1 DEF Grows
      <4>2. CASE r # p
        BY <1>1, <1>3, <2>1, <4>2, OtherFiles DEF StepOf, OnlyWriter
      <4> QED  BY <4>1, <4>2
    <3>2. BeingCreated(r, t)
      BY <2>1, <3>1 DEF BeingCreated, OnlyWriter
    <3>3. /\ proc[q].size \in Nat /\ fs[t].blocks \in Seq(U) /\ fs'[t].blocks \in Seq(V)
      BY <1>3 DEF Typed, LocalsOf, Nodes, StepOf, FsStep
    <3>4. Len(fs[t].blocks) \in Nat /\ Len(fs'[t].blocks) \in Nat
      BY <3>3, LenProperties
    <3> QED  BY <1>2, <3>1, <3>2, <3>3, <3>4 DEF ArchiveRead
  <2> QED  BY <2>2, <2>3
<1>8. TargetsWritten(q)'
  <2> SUFFICES ASSUME IsWhole(proc[q].buf)
               PROVE  TargetsWritten(q)'
    BY <1>1 DEF TargetsWritten
  <2>1. \A l : EntriesFor(q, l)' = EntriesFor(q, l)
    BY <1>1, <1>3 DEF EntriesFor
  <2>2. EntryTaken(q)' <=> EntryTaken(q)
    BY <1>1 DEF EntryTaken
  <2>3. \A l \in DOMAIN Files : OnlyWriter(q, l)' =>
          OnlyWriter(q, l) /\ fs'[l].blocks = fs[l].blocks
    BY OtherFiles
  <2>4. \A l \in DOMAIN Files : OnlyWriter(q, l)' /\ Settled(q, l) => Settled(q, l)'
    BY <1>1, <2>1, <2>3 DEF Settled
  <2>5. proc[q].pc = "write" => EntryTarget(q) \in DOMAIN Files
    BY <1>2 DEF ExtractPlace, Opened
  <2> DEFINE loc == proc[q]
  <2>6. loc.pc \in Extracting \ {"entry"} => EntryTaken(q)'
    BY <1>2, <2>2 DEF TargetsWritten
  <2>7. loc.pc = "write" /\ OnlyWriter(q, EntryTarget(q))' =>
          fs'[EntryTarget(q)].blocks = Start(loc.entry.body, loc.size)
    BY <1>2, <1>4, <2>3, <2>5 DEF TargetsWritten
  <2>8. loc.pc = "write" => loc.size <= Len(loc.entry.body)
    BY <1>2 DEF TargetsWritten
  <2>9. ASSUME loc.pc \in Extracting \/ loc.exit = "ok", NEW l \in DOMAIN Files,
               OnlyWriter(q, l)', ~(loc.pc = "write" /\ l = EntryTarget(q))
        PROVE  Settled(q, l)'
    BY <1>2, <2>3, <2>4, <2>9 DEF TargetsWritten
  <2> HIDE DEF loc
  <2> QED  BY <1>1, <1>4, <2>6, <2>7, <2>8, <2>9 DEF TargetsWritten, loc
<1> QED  BY <1>6, <1>7, <1>8

(* What each step of a process is shown to do, over a set V of blocks that *)
(* may be larger than before.                                              *)
StepInv(p, V) ==
  /\ StepOf(p, V) /\ Grows(p)
  /\ Hole \in V /\ Closed(V) /\ proc'[p] \in LocalsOf(V)
  /\ proc' = [proc EXCEPT ![p] = proc'[p]]
  /\ ProcInv(p)'

(* Such a step preserves the invariant.                                    *)
LEMMA StepPreserves ==
  ASSUME NEW U, NEW V, StateInv(U), NEW p \in Procs, StepInv(p, V),
         LocalsOf(U) \subseteq LocalsOf(V)
  PROVE  StateInv(V)'
<1>1. job' \in Jobs /\ TreeInv' /\ FileInv'
  BY DEF StepInv, StepOf, StateInv, FsStep
<1>2. Typed(V)'
  <2>1. proc \in [Procs -> LocalsOf(U)]
    BY DEF StateInv, Typed
  <2>2. proc' \in [Procs -> LocalsOf(V)]
    BY <2>1 DEF StepInv
  <2>3. fs' \in [DOMAIN Files -> Nodes(V)]
    BY DEF StepInv, StepOf, FsStep
  <2> QED  BY <2>2, <2>3 DEF Typed, StepInv
<1>3. ASSUME NEW q \in Procs \ {p}
      PROVE  ProcInv(q)'
  <2>1. job' = job /\ proc'[q] = proc[q] /\ ProcInv(q)
    BY DEF StepInv, StepOf, StateInv
  <2>2. CreateInv(q)'
    BY <2>1, OtherCreate DEF ProcInv, StepInv, StateInv
  <2>3. ExtractInv(q)'
    BY <2>1, OtherExtract DEF ProcInv, StepInv, StateInv
  <2> QED  BY <2>1, <2>2, <2>3 DEF ProcInv
<1> QED  BY <1>1, <1>2, <1>3 DEF StateInv, StepInv

-----------------------------------------------------------------------------
(* Steps that open and write no file.                                      *)

(* The types of what a process knows, in a state of the invariant.          *)
LEMMA LocalTypes ==
  ASSUME NEW U, StateInv(U), NEW p \in Procs
  PROVE  /\ proc[p] \in LocalsOf(U)
         /\ proc[p].j \in Nat /\ proc[p].size \in Nat
         /\ proc[p].buf \in Seq(U) /\ Len(proc[p].buf) \in Nat
         /\ proc[p].entries \in Seq(Archivable(U)) /\ Len(proc[p].entries) \in Nat
         /\ DOMAIN proc[p].entries = 1..Len(proc[p].entries)
         /\ ProcInv(p) /\ FsInv(U) /\ job \in Jobs
<1>1. proc[p] \in LocalsOf(U) /\ ProcInv(p) /\ FsInv(U) /\ job \in Jobs
  BY DEF StateInv, Typed, FsInv
<1>2. /\ proc[p].j \in Nat /\ proc[p].size \in Nat
      /\ proc[p].buf \in Seq(U) /\ proc[p].entries \in Seq(Archivable(U))
  BY <1>1 DEF LocalsOf
<1> QED  BY <1>1, <1>2, LenProperties

(* r is what p knows after the step.                                       *)
Becomes(p, r) == proc' = [proc EXCEPT ![p] = r]

(* A step that opens and writes no file, and after which p's part of the    *)
(* invariant holds.                                                         *)
LEMMA QuietStep ==
  ASSUME NEW U, StateInv(U), NEW p \in Procs, NEW r \in LocalsOf(U), Becomes(p, r),
         job' = job, FsStep(p, U), Quiet, ProcInv(p)',
         r.entries = proc[p].entries \/ proc[p].pc \notin {"write", "done"}
  PROVE  StepInv(p, U)
<1>1. proc \in [Procs -> LocalsOf(U)] /\ Hole \in U /\ Closed(U)
  BY DEF StateInv, Typed
<1>2. proc'[p] = r /\ \A q \in Procs \ {p} : proc'[q] = proc[q]
  BY <1>1 DEF Becomes
<1>3. StepOf(p, U)
  BY <1>2 DEF StepOf
<1>4. Grows(p)
  <2> SUFFICES ASSUME job[p].op = "create", fs'[Target(p)].by = {p}
               PROVE  /\ fs[Target(p)].by = {p}
                      /\ proc'[p].entries = proc[p].entries
                      /\ Len(fs'[Target(p)].blocks) >= Len(fs[Target(p)].blocks)
    BY DEF Grows
  <2>1. Target(p) \in DOMAIN Files
    BY LocalTypes, CommandPlaces
  <2>2. fs[Target(p)].by = {p} /\ fs'[Target(p)].blocks = fs[Target(p)].blocks
    BY <2>1 DEF Quiet
  <2>3. Target(p) \in Opened(p)
    BY <2>1, <2>2 DEF Opened
  <2>4. proc[p].pc \in {"write", "done"}
    BY <2>3, LocalTypes DEF ProcInv, CreateInv, CreatePlace
  <2>5. fs[Target(p)] \in Nodes(U)
    BY <2>1 DEF StateInv, Typed
  <2>6. fs[Target(p)].blocks \in Seq(U)
    BY <2>5 DEF Nodes
  <2>7. Len(fs[Target(p)].blocks) \in Nat
    BY <2>6, LenProperties
  <2> QED  BY <1>2, <2>2, <2>4, <2>7
<1> QED  BY <1>1, <1>2, <1>3, <1>4 DEF StepInv, Becomes

(* The same processes have the same files open.                            *)
LEMMA QuietFiles ==
  ASSUME Quiet, NEW p \in Procs
  PROVE  /\ Opened(p)' = Opened(p)
         /\ \A l \in DOMAIN Files :
              /\ NoOtherWriter(p, l)' <=> NoOtherWriter(p, l)
              /\ OnlyWriter(p, l)' <=> OnlyWriter(p, l)
              /\ fs'[l].blocks = fs[l].blocks
  BY DEF Quiet, Opened, NoOtherWriter, OnlyWriter

(* A process that ends without success leaves what it has done.            *)
LEMMA ExitStep ==
  ASSUME NEW U, StateInv(U), NEW p \in Procs, proc[p].pc # "done",
         NEW code \in {"usage", "io", "data", "killed"},
         job' = job, FsStep(p, U), Quiet,
         proc' = [proc EXCEPT ![p].pc = "done", ![p].exit = code]
  PROVE  StepInv(p, U)
<1> DEFINE r == [proc[p] EXCEPT !.pc = "done", !.exit = code]
<1>1. proc[p] \in LocalsOf(U) /\ proc \in [Procs -> LocalsOf(U)]
  BY LocalTypes DEF StateInv, Typed
<1>2. r \in LocalsOf(U) /\ r.pc = "done" /\ r.exit = code /\ r.j = proc[p].j
      /\ r.entries = proc[p].entries /\ r.buf = proc[p].buf /\ r.size = proc[p].size
  BY <1>1 DEF LocalsOf, Places
<1>3. Becomes(p, r)
  BY <1>1 DEF Becomes
<1> HIDE DEF r
<1>4. proc'[p] = r
  BY <1>1, <1>3 DEF Becomes
<1>5. Target(p)' = Target(p) /\ Target(p) \in DOMAIN Files
  BY LocalTypes, CommandPlaces DEF Target
<1>6. CreateInv(p)'
  <2> SUFFICES ASSUME job[p].op = "create"
               PROVE  (CreatePlace(p) /\ InputsTaken(p) /\ InputRead(p)
                       /\ InputsKept(p) /\ ArchiveBegun(p))'
    BY DEF CreateInv
  <2>1. /\ CreatePlace(p) /\ InputsTaken(p) /\ InputsKept(p) /\ ArchiveBegun(p)
    BY LocalTypes DEF ProcInv, CreateInv
  <2>2. CreatePlace(p)'
    BY <1>2, <1>4, <1>5, <2>1, QuietFiles DEF CreatePlace
  <2>3. InputsTaken(p)'
    BY <1>2, <1>4, <2>1 DEF InputsTaken
  <2>4. InputRead(p)'
    BY <1>2, <1>4 DEF InputRead
  <2>5. InputsKept(p)'
    <3>1. \A k \in DOMAIN proc[p].entries : Location(job[p].inputs[k]) \in DOMAIN Files
      <4>1. /\ DOMAIN proc[p].entries = 1..Len(proc[p].entries)
            /\ Len(proc[p].entries) \in Nat /\ job \in Jobs
        BY LocalTypes
      <4>2. /\ Len(job[p].inputs) \in Nat
            /\ \A k \in 1..Len(job[p].inputs) : Location(job[p].inputs[k]) \in DOMAIN Files
        BY <4>1, CommandPlaces
      <4> QED  BY <2>1, <4>1, <4>2 DEF InputsTaken
    <3> QED  BY <1>2, <1>4, <2>1, <3>1, QuietFiles DEF InputsKept
  <2>6. ArchiveBegun(p)'
    BY <1>2, <1>4, <1>5, <2>1, QuietFiles DEF ArchiveBegun
  <2> QED  BY <2>2, <2>3, <2>4, <2>5, <2>6
<1>7. ExtractInv(p)'
  <2> SUFFICES ASSUME job[p].op = "extract"
               PROVE  (ExtractPlace(p) /\ ArchiveRead(p) /\ TargetsWritten(p))'
    BY DEF ExtractInv
  <2>1. ExtractPlace(p) /\ ArchiveRead(p)
    BY LocalTypes DEF ProcInv, ExtractInv
  <2>2. ExtractPlace(p)'
    <3>1. fs[Target(p)].kind = "file" => fs'[Target(p)].kind = "file"
      BY <1>5 DEF FsStep
    <3> QED  BY <1>2, <1>4, <1>5, <2>1, <3>1, QuietFiles DEF ExtractPlace, Extracting
  <2>3. ArchiveRead(p)'
    <3> SUFFICES ASSUME NEW q \in Procs, BeingCreated(q, Target(p))', Opened(p) # {}
                 PROVE  r.buf = Blocks(proc'[q].entries)
      BY <1>2, <1>4, <1>5, QuietFiles DEF ArchiveRead, Extracting
    <3>1. BeingCreated(q, Target(p))
      BY <1>5, QuietFiles DEF BeingCreated, Target
    <3>2. proc'[q].entries = proc[q].entries
      BY <1>1, <1>2, <1>3, <1>4 DEF Becomes
    <3> QED  BY <1>2, <2>1, <3>1, <3>2 DEF ArchiveRead
  <2>4. TargetsWritten(p)'
    BY <1>2, <1>4 DEF TargetsWritten, Extracting
  <2> QED  BY <2>2, <2>3, <2>4
<1>8. ProcInv(p)'
  BY <1>2, <1>4, <1>6, <1>7 DEF ProcInv
<1> QED  BY <1>2, <1>3, <1>8, QuietStep

-----------------------------------------------------------------------------
(* Steps of create.                                                        *)

(* Before the output is opened a process that runs create has no file open.*)
Early == {"start", "input", "open", "read", "output"}
(* So a step on the way to the output has only to keep what is said of the  *)
(* inputs.                                                                  *)
LEMMA EarlyCreate ==
  ASSUME NEW U, StateInv(U), NEW p \in Procs, job[p].op = "create",
         proc[p].pc \in Early, job' = job, fs' = fs,
         NEW r \in LocalsOf(U), Becomes(p, r), r.pc \in Early, r.exit = "none",
         InputsTaken(p)', InputRead(p)', InputsKept(p)'
  PROVE  StepInv(p, U)
<1>1. FsStep(p, U) /\ Quiet
  BY LocalTypes, SameFiles
<1>2. proc'[p] = r
  BY DEF Becomes, StateInv, Typed
<1>3. Opened(p) = {}
  BY LocalTypes DEF ProcInv, CreateInv, CreatePlace, Early
<1>4. Opened(p)' = {}
  BY <1>1, <1>3, QuietFiles
<1>5. CreatePlace(p)'
  BY <1>2, <1>4 DEF CreatePlace, Early
<1>6. ArchiveBegun(p)'
  <2>1. Target(p)' \in DOMAIN Files
    BY LocalTypes, CommandPlaces DEF Target
  <2> QED  BY <1>4, <2>1 DEF ArchiveBegun, OnlyWriter, Opened
<1>7. ProcInv(p)'
  BY <1>5, <1>6 DEF ProcInv, CreateInv, ExtractInv
<1> QED  BY <1>1, <1>7, QuietStep DEF Early

(* What such a process knows of its place.                                 *)
LEMMA CreateKnows ==
  ASSUME NEW U, StateInv(U), NEW p \in Procs, job[p].op = "create"
  PROVE  /\ CreatePlace(p) /\ InputsTaken(p) /\ InputRead(p) /\ InputsKept(p)
         /\ ArchiveBegun(p)
         /\ Len(job[p].inputs) \in Nat /\ Target(p) \in DOMAIN Files
         /\ \A k \in 1..Len(job[p].inputs) :
              /\ Location(job[p].inputs[k]) \in DOMAIN Files
              /\ normalize_path_inplace(job[p].inputs[k]) \in ArchivedPaths
  BY LocalTypes, CommandPlaces DEF ProcInv, CreateInv

(* An output that is there ends the process, unless it may be replaced.    *)
LEMMA CheckOutputStep ==
  ASSUME NEW U, StateInv(U), NEW p \in Procs, CheckOutput(p)
  PROVE  StepInv(p, U)
<1>1. job[p].op = "create" /\ proc[p].pc = "start"
  BY DEF CheckOutput, At
<1>2. CASE Exit(p, "usage")
  BY <1>1, <1>2, ExitStep, SameFiles, LocalTypes DEF Exit
<1>3. CASE /\ proc' = [proc EXCEPT ![p].pc = "input", ![p].j = 1]
           /\ UNCHANGED <<fs, job>>
  <2> DEFINE r == [proc[p] EXCEPT !.pc = "input", !.j = 1]
  <2>1. proc[p] \in LocalsOf(U) /\ proc \in [Procs -> LocalsOf(U)]
    BY LocalTypes DEF StateInv, Typed
  <2>2. /\ r \in LocalsOf(U) /\ r.pc = "input" /\ r.j = 1
        /\ r.entries = proc[p].entries /\ r.exit = proc[p].exit
    BY <2>1 DEF LocalsOf, Places
  <2>3. Becomes(p, r)
    BY <1>3, <2>1 DEF Becomes
  <2> HIDE DEF r
  <2>4. proc'[p] = r /\ job' = job /\ fs' = fs
    BY <1>3, <2>1, <2>3 DEF Becomes
  <2>5. r.exit = "none"
    BY <1>1, <2>2, CreateKnows DEF CreatePlace
  <2>6. InputsTaken(p)'
    BY <1>1, <2>2, <2>4, CreateKnows DEF InputsTaken
  <2>7. InputRead(p)'
    BY <2>2, <2>4 DEF InputRead
  <2>8. InputsKept(p)'
    BY <1>1, <2>2, <2>4, CreateKnows DEF InputsKept, NoOtherWriter
  <2> QED  BY <1>1, <2>2, <2>3, <2>4, <2>5, <2>6, <2>7, <2>8, EarlyCreate DEF Early
<1> QED  BY <1>2, <1>3 DEF CheckOutput

(* An input that is a directory ends the process; any other is opened next. *)
LEMMA CheckInputStep ==
  ASSUME NEW U, StateInv(U), NEW p \in Procs, CheckInput(p)
  PROVE  StepInv(p, U)
<1>1. job[p].op = "create" /\ proc[p].pc = "input" /\ ~InputsDone(p)
  BY DEF CheckInput, At
<1>2. CASE Exit(p, "usage")
  BY <1>1, <1>2, ExitStep, SameFiles, LocalTypes DEF Exit
<1>3. CASE Goto(p, "open")
  <2> DEFINE r == [proc[p] EXCEPT !.pc = "open"]
  <2>1. /\ proc[p] \in LocalsOf(U) /\ proc \in [Procs -> LocalsOf(U)]
        /\ proc[p].j \in Nat
    BY LocalTypes DEF StateInv, Typed
  <2>2. /\ r \in LocalsOf(U) /\ r.pc = "open" /\ r.j = proc[p].j
        /\ r.entries = proc[p].entries /\ r.exit = proc[p].exit
    BY <2>1 DEF LocalsOf, Places
  <2>3. Becomes(p, r)
    BY <1>3, <2>1 DEF Becomes, Goto
  <2> HIDE DEF r
  <2>4. proc'[p] = r /\ job' = job /\ fs' = fs
    BY <1>3, <2>1, <2>3 DEF Becomes, Goto
  <2>5. r.exit = "none"
    BY <1>1, <2>2, CreateKnows DEF CreatePlace
  <2>6. InputsTaken(p)'
    <3>1. Len(job[p].inputs) \in Nat /\ InputsTaken(p)
      BY <1>1, CreateKnows
    <3>2. proc[p].j <= Len(job[p].inputs)
      BY <1>1, <2>1, <3>1 DEF InputsDone
    <3> QED  BY <1>1, <2>2, <2>4, <2>5, <3>1, <3>2 DEF InputsTaken
  <2>7. InputRead(p)'
    BY <2>2, <2>4 DEF InputRead
  <2>8. InputsKept(p)'
    BY <1>1, <2>2, <2>4, CreateKnows DEF InputsKept, NoOtherWriter
  <2> QED  BY <1>1, <2>2, <2>3, <2>4, <2>5, <2>6, <2>7, <2>8, EarlyCreate DEF Early
<1> QED  BY <1>2, <1>3 DEF CheckInput

(* While p reads an input no one else has opened, it is as it was before.  *)
LEMMA InputUntouched ==
  ASSUME NEW U, StateInv(U), NEW p \in Procs, job[p].op = "create",
         proc[p].pc \in {"open", "read"}
  PROVE  /\ Location(Input(p)) \in DOMAIN Files
         /\ Input(p) = job[p].inputs[proc[p].j]
         /\ proc[p].j \in 1..Len(job[p].inputs)
         /\ Len(proc[p].entries) + 1 = proc[p].j
         /\ fs[Location(Input(p))] \in Nodes(U)
         /\ fs[Location(Input(p))].blocks \in Seq(U)
         /\ Len(fs[Location(Input(p))].blocks) \in Nat
         /\ NoOtherWriter(p, Location(Input(p))) =>
              fs[Location(Input(p))].blocks = Files[Location(Input(p))].blocks
<1> DEFINE l == Location(Input(p))
<1>1. /\ CreatePlace(p) /\ InputsTaken(p) /\ Len(job[p].inputs) \in Nat
      /\ proc[p].j \in Nat /\ Len(proc[p].entries) \in Nat
  BY CreateKnows, LocalTypes
<1>2. /\ Len(proc[p].entries) + 1 = proc[p].j
      /\ proc[p].j \in 1..Len(job[p].inputs)
  BY <1>1 DEF InputsTaken
<1>3. l \in DOMAIN Files
  BY <1>2, CreateKnows DEF Input
<1>4. fs[l] \in Nodes(U)
  BY <1>3, LocalTypes DEF FsInv
<1>5. fs[l].blocks \in Seq(U)
  BY <1>4 DEF Nodes
<1>6. Len(fs[l].blocks) \in Nat
  BY <1>5, LenProperties
<1>7. p \notin fs[l].by
  BY <1>1, <1>3 DEF CreatePlace, Opened
<1>8. NoOtherWriter(p, l) => fs[l].blocks = Files[l].blocks
  BY <1>3, <1>7 DEF NoOtherWriter, StateInv, FileInv
<1> QED  BY <1>2, <1>3, <1>4, <1>5, <1>6, <1>8 DEF Input

(* Files start with blocks of Contents.                                    *)
LEMMA BlocksAtStart ==
  ASSUME NEW l \in DOMAIN Files
  PROVE  Files[l].blocks \in Seq(Contents)
<1>1. CASE Files[l] \in {Absent, Directory}
  BY <1>1, EmptyNodes, EmptySeq
<1>2. CASE Files[l] \notin {Absent, Directory}
  BY <1>2, FilesAssumption
<1> QED  BY <1>1, <1>2

(* An input no one else has opened is opened with the size it had at the    *)
(* start.                                                                   *)
LEMMA OpenInputStep ==
  ASSUME NEW U, StateInv(U), NEW p \in Procs, OpenInput(p)
  PROVE  StepInv(p, U)
<1> DEFINE l == Location(Input(p))
<1>1. job[p].op = "create" /\ proc[p].pc = "open"
  BY DEF OpenInput, At
<1>2. CASE Exit(p, "io")
  BY <1>1, <1>2, ExitStep, SameFiles, LocalTypes DEF Exit
<1>3. CASE /\ proc' = [proc EXCEPT ![p].pc = "read", ![p].buf = <<>>,
                                   ![p].size = Len(fs[l].blocks)]
           /\ UNCHANGED <<fs, job>>
  <2> DEFINE n == Len(fs[l].blocks)
             r == [proc[p] EXCEPT !.pc = "read", !.buf = <<>>, !.size = n]
  <2>1. /\ proc[p] \in LocalsOf(U) /\ proc \in [Procs -> LocalsOf(U)]
        /\ n \in Nat /\ <<>> \in Seq(U)
    BY <1>1, LocalTypes, InputUntouched, EmptySeq DEF StateInv, Typed
  <2>2. Becomes(p, r)
    BY <1>3, <2>1 DEF Becomes
  <2> HIDE DEF n
  <2>3. /\ r \in LocalsOf(U) /\ r.pc = "read" /\ r.j = proc[p].j
        /\ r.entries = proc[p].entries /\ r.exit = proc[p].exit
        /\ r.buf = <<>> /\ r.size = n
    BY <2>1 DEF LocalsOf, Places
  <2> HIDE DEF r
  <2>4. proc'[p] = r /\ job' = job /\ fs' = fs
    BY <1>3, <2>1, <2>2 DEF Becomes
  <2>5. r.exit = "none"
    BY <1>1, <2>3, CreateKnows DEF CreatePlace
  <2>6. InputsTaken(p)'
    BY <1>1, <2>3, <2>4, <2>5, CreateKnows DEF InputsTaken
  <2>7. InputRead(p)'
    <3>1. Input(p)' = Input(p) /\ NoOtherWriter(p, l)' = NoOtherWriter(p, l)
      BY <2>3, <2>4 DEF Input, NoOtherWriter
    <3>2. NoOtherWriter(p, l) => n = Len(Files[l].blocks)
      BY <1>1, InputUntouched DEF n
    <3>3. Len(r.buf) = 0 /\ Len(r.buf) <= r.size
      BY <2>1, <2>3, EmptySeq
    <3>4. r.buf = Start(Files[l].blocks, Len(r.buf))
      BY <1>1, <2>3, <3>3, InputUntouched, BlocksAtStart, StartEnds
    <3> QED  BY <2>3, <2>4, <3>1, <3>2, <3>3, <3>4 DEF InputRead
  <2>8. InputsKept(p)'
    BY <1>1, <2>3, <2>4, CreateKnows DEF InputsKept, NoOtherWriter
  <2> QED  BY <1>1, <2>2, <2>3, <2>4, <2>5, <2>6, <2>7, <2>8, EarlyCreate DEF Early
<1> QED  BY <1>2, <1>3 DEF OpenInput, OpenForReading

(* Each block that is read of it is the block that was there at the start.  *)
LEMMA ReadInputStep ==
  ASSUME NEW U, StateInv(U), NEW p \in Procs, ReadInput(p)
  PROVE  StepInv(p, U)
<1> DEFINE l == Location(Input(p))
           n == Len(proc[p].buf) + 1
<1>1. job[p].op = "create" /\ proc[p].pc = "read"
  BY DEF ReadInput, At
<1>2. CASE Exit(p, "io")
  BY <1>1, <1>2, ExitStep, SameFiles, LocalTypes DEF Exit
<1>3. CASE /\ n <= proc[p].size /\ n <= Len(fs[l].blocks)
           /\ proc' = [proc EXCEPT ![p].buf = Append(@, fs[l].blocks[n])]
           /\ UNCHANGED <<fs, job>>
  <2> DEFINE b == fs[l].blocks[n]
             buf == Append(proc[p].buf, b)
             r == [proc[p] EXCEPT !.buf = buf]
  <2>1. /\ proc[p] \in LocalsOf(U) /\ proc \in [Procs -> LocalsOf(U)]
        /\ proc[p].buf \in Seq(U) /\ Len(proc[p].buf) \in Nat /\ proc[p].size \in Nat
    BY LocalTypes DEF StateInv, Typed
  <2>2. b \in U
    <3>1. fs[l].blocks \in Seq(U) /\ Len(fs[l].blocks) \in Nat
      BY <1>1, InputUntouched
    <3> QED  BY <1>3, <2>1, <3>1, ElementOfSeq
  <2>3. buf \in Seq(U) /\ Len(buf) = n
    BY <2>1, <2>2, AppendProperties
  <2>4. Becomes(p, r)
    BY <1>3, <2>1 DEF Becomes
  <2> HIDE DEF buf
  <2>5. /\ r \in LocalsOf(U) /\ r.pc = proc[p].pc /\ r.j = proc[p].j
        /\ r.entries = proc[p].entries /\ r.exit = proc[p].exit
        /\ r.buf = buf /\ r.size = proc[p].size
    BY <2>1, <2>3 DEF LocalsOf
  <2> HIDE DEF r
  <2>6. proc'[p] = r /\ job' = job /\ fs' = fs
    BY <1>3, <2>1, <2>4 DEF Becomes
  <2>7. r.exit = "none"
    BY <1>1, <2>5, CreateKnows DEF CreatePlace
  <2>8. InputsTaken(p)'
    BY <1>1, <2>5, <2>6, <2>7, CreateKnows DEF InputsTaken
  <2>9. InputRead(p)'
    <3>1. Input(p)' = Input(p) /\ NoOtherWriter(p, l)' = NoOtherWriter(p, l)
      BY <2>5, <2>6 DEF Input, NoOtherWriter
    <3>2. ASSUME NoOtherWriter(p, l)
          PROVE  buf = Start(Files[l].blocks, n) /\ proc[p].size = Len(Files[l].blocks)
      <4>1. /\ proc[p].buf = Start(Files[l].blocks, Len(proc[p].buf))
            /\ proc[p].size = Len(Files[l].blocks)
        BY <1>1, <3>2, CreateKnows DEF InputRead
      <4>2. fs[l].blocks = Files[l].blocks /\ l \in DOMAIN Files
        BY <1>1, <3>2, InputUntouched
      <4>3. Files[l].blocks \in Seq(Contents)
        BY <4>2, BlocksAtStart
      <4> DEFINE s == Files[l].blocks
                 m == Len(proc[p].buf)
      <4>4. m \in Nat /\ m + 1 <= Len(s)
        BY <1>3, <2>1, <4>1
      <4> HIDE DEF m, s
      <4>5. Append(Start(s, m), s[m + 1]) = Start(s, m + 1)
        BY <4>3, <4>4, StartAppend DEF s
      <4> QED  BY <4>1, <4>2, <4>5 DEF m, s, buf
    <3> QED  BY <1>3, <2>3, <2>5, <2>6, <3>1, <3>2 DEF InputRead
  <2>10. InputsKept(p)'
    BY <1>1, <2>5, <2>6, CreateKnows DEF InputsKept, NoOtherWriter
  <2> QED  BY <1>1, <2>4, <2>5, <2>6, <2>7, <2>8, <2>9, <2>10, EarlyCreate DEF Early
<1> QED  BY <1>2, <1>3 DEF ReadInput, ReadBlock

(* An input that has been read is archived as it is.                       *)
LEMMA TakeInput ==
  ASSUME NEW U, StateInv(U), NEW p \in Procs, job[p].op = "create",
         proc[p].pc = "read", ReadComplete(p), job' = job, fs' = fs,
         NEW e \in Archivable(U), e.body = proc[p].buf, NEW name \in Owners,
         proc' = [proc EXCEPT ![p].pc = "input", ![p].j = @ + 1,
                              ![p].entries = Append(@, e), ![p].ownerBuf = name]
  PROVE  StepInv(p, U)
<1> DEFINE old == proc[p].entries
           n == Len(old) + 1
           entries == Append(old, e)
           r == [proc[p] EXCEPT !.pc = "input", !.j = @ + 1, !.entries = entries,
                                !.ownerBuf = name]
           l == Location(Input(p))
<1>1. /\ proc[p] \in LocalsOf(U) /\ proc \in [Procs -> LocalsOf(U)]
      /\ old \in Seq(Archivable(U)) /\ Len(old) \in Nat /\ proc[p].j \in Nat
      /\ DOMAIN old = 1..Len(old)
  BY LocalTypes DEF StateInv, Typed
<1>2. /\ entries \in Seq(Archivable(U)) /\ Len(entries) = n /\ entries[n] = e
      /\ \A k \in 1..Len(old) : entries[k] = old[k]
  BY <1>1, AppendProperties
<1>3. Becomes(p, r)
  BY <1>1 DEF Becomes
<1>4. DOMAIN entries = 1..n
  BY <1>1, <1>2, LenProperties
<1> HIDE DEF entries
<1>5. /\ r \in LocalsOf(U) /\ r.pc = "input" /\ r.j = proc[p].j + 1
      /\ r.entries = entries /\ r.exit = proc[p].exit
  BY <1>1, <1>2 DEF LocalsOf, Places
<1> HIDE DEF r
<1>6. proc'[p] = r
  BY <1>1, <1>3 DEF Becomes
<1>7. r.exit = "none"
  BY <1>5, CreateKnows DEF CreatePlace
<1>8. /\ n = proc[p].j /\ proc[p].j \in 1..Len(job[p].inputs)
      /\ l \in DOMAIN Files /\ l = Location(job[p].inputs[n])
  BY InputUntouched
<1>9. InputsTaken(p)'
  <2>1. Len(job[p].inputs) \in Nat
    BY CreateKnows
  <2>2. n + 1 = r.j /\ n <= Len(job[p].inputs) /\ n \in Nat
    BY <1>1, <1>5, <1>8, <2>1
  <2> HIDE DEF n
  <2>3. /\ proc'[p].pc = "input" /\ proc'[p].exit = "none" /\ Len(proc'[p].entries) = n
        /\ proc'[p].j = n + 1 /\ job'[p].inputs = job[p].inputs
    BY <1>2, <1>5, <1>6, <1>7, <2>2
  <2> QED  BY <2>1, <2>2, <2>3 DEF InputsTaken
<1>10. InputRead(p)'
  BY <1>5, <1>6 DEF InputRead
<1>11. InputsKept(p)'
  <2> SUFFICES ASSUME NEW k \in 1..n, NoOtherWriter(p, Location(job[p].inputs[k]))
               PROVE  entries[k].body = Files[Location(job[p].inputs[k])].blocks
    BY <1>4, <1>5, <1>6 DEF InputsKept, NoOtherWriter
  <2>1. CASE k # n
    <3>1. k \in DOMAIN old /\ entries[k] = old[k]
      BY <1>1, <1>2, <2>1
    <3> QED  BY <3>1, CreateKnows DEF InputsKept
  <2>2. CASE k = n
    <3>1. NoOtherWriter(p, l)
      BY <1>8, <2>2
    <3>2. /\ proc[p].buf = Start(Files[l].blocks, Len(proc[p].buf))
          /\ Len(proc[p].buf) = Len(Files[l].blocks)
      BY <3>1, CreateKnows DEF InputRead, ReadComplete
    <3>3. proc[p].buf = Files[l].blocks
      BY <1>8, <3>2, BlocksAtStart, StartEnds
    <3> QED  BY <1>2, <1>8, <2>2, <3>3
  <2> QED  BY <2>1, <2>2
<1> QED  BY <1>3, <1>5, <1>7, <1>9, <1>10, <1>11, EarlyCreate DEF Early

(* With its metadata or, if stat fails, without.                            *)
LEMMA StatInputStep ==
  ASSUME NEW U, StateInv(U), NEW p \in Procs, StatInput(p)
  PROVE  StepInv(p, U)
<1> DEFINE node == fs[Location(Input(p))]
           entry == [kind |-> "file", path |-> normalize_path_inplace(Input(p)),
                     body |-> proc[p].buf, mode |-> node.mode, owner |-> node.owner]
           unknown == [entry EXCEPT !.mode = 0, !.owner = NoName]
           Taken(e, name) ==
             proc' = [proc EXCEPT ![p].pc = "input", ![p].j = @ + 1,
                                  ![p].entries = Append(@, e), ![p].ownerBuf = name]
<1>1. /\ job[p].op = "create" /\ proc[p].pc = "read" /\ ReadComplete(p)
      /\ job' = job /\ fs' = fs
      /\ \/ Taken(entry, node.owner)
         \/ Taken(unknown, proc[p].ownerBuf)
  BY DEF StatInput, At
<1>2. node.mode \in Nat /\ node.owner \in Owners /\ proc[p].buf \in Seq(U)
  BY <1>1, InputUntouched, LocalTypes DEF Nodes
<1>3. proc[p].ownerBuf \in Owners /\ NoName \in Owners
  BY LocalTypes DEF LocalsOf, Owners
<1>4. normalize_path_inplace(Input(p)) \in ArchivedPaths
  BY <1>1, InputUntouched, CreateKnows
<1>5. entry \in Archivable(U) /\ entry.body = proc[p].buf
  BY <1>2, <1>4 DEF Archivable
<1>6. unknown \in Archivable(U) /\ unknown.body = proc[p].buf
  BY <1>3, <1>5 DEF Archivable
<1> HIDE DEF entry, unknown
<1>7. CASE Taken(entry, node.owner)
  BY <1>1, <1>2, <1>5, <1>7, TakeInput
<1>8. CASE Taken(unknown, proc[p].ownerBuf)
  BY <1>1, <1>3, <1>6, <1>8, TakeInput
<1> QED  BY <1>1, <1>7, <1>8

(* All inputs have been read; only the owners' names change.                *)
LEMMA BuildStep ==
  ASSUME NEW U, StateInv(U), NEW p \in Procs, Build(p)
  PROVE  StepInv(p, U)
<1> DEFINE old == proc[p].entries
           n == Len(old)
           entries == [k \in DOMAIN old |-> Dereferenced(old[k], proc[p].ownerBuf)]
<1>1. job[p].op = "create" /\ proc[p].pc = "input" /\ InputsDone(p)
  BY DEF Build, At
<1>2. CASE Exit(p, "io")
  BY <1>1, <1>2, ExitStep, SameFiles, LocalTypes DEF Exit
<1>3. CASE /\ proc' = [proc EXCEPT ![p].pc = "output", ![p].entries = entries]
           /\ UNCHANGED <<fs, job>>
  <2> DEFINE r == [proc[p] EXCEPT !.pc = "output", !.entries = entries]
  <2>1. /\ proc[p] \in LocalsOf(U) /\ proc \in [Procs -> LocalsOf(U)]
        /\ old \in Seq(Archivable(U)) /\ n \in Nat /\ DOMAIN old = 1..n
        /\ proc[p].j \in Nat
    BY LocalTypes DEF StateInv, Typed
  <2>2. proc[p].ownerBuf \in Owners /\ NoName \in Owners
    BY <2>1 DEF LocalsOf, Owners
  <2>3. \A k \in 1..n :
          LET e == Dereferenced(old[k], proc[p].ownerBuf)
          IN  e \in Archivable(U) /\ e.body = old[k].body
    <3> TAKE k \in 1..n
    <3>1. old[k] \in Archivable(U)
      BY <2>1, ElementOfSeq
    <3> QED  BY <2>2, <3>1 DEF Dereferenced, Archivable
  <2>4. Becomes(p, r)
    BY <1>3, <2>1 DEF Becomes
  <2>5. entries \in [1..n -> Archivable(U)] /\ \A k \in 1..n : entries[k].body = old[k].body
    BY <2>1, <2>3
  <2> HIDE DEF entries
  <2>6. entries \in Seq(Archivable(U)) /\ Len(entries) = n /\ DOMAIN entries = 1..n
    BY <2>1, <2>5
  <2>7. /\ r \in LocalsOf(U) /\ r.pc = "output" /\ r.j = proc[p].j
        /\ r.entries = entries /\ r.exit = proc[p].exit
    BY <2>1, <2>6 DEF LocalsOf, Places
  <2> HIDE DEF r
  <2>8. proc'[p] = r /\ job' = job /\ fs' = fs
    BY <1>3, <2>1, <2>4 DEF Becomes
  <2>9. r.exit = "none"
    BY <1>1, <2>7, CreateKnows DEF CreatePlace
  <2>10. InputsTaken(p)'
    <3>1. Len(job[p].inputs) \in Nat /\ InputsTaken(p)
      BY <1>1, CreateKnows
    <3>2. n = Len(job[p].inputs)
      BY <1>1, <2>1, <3>1 DEF InputsDone, InputsTaken
    <3> QED  BY <2>6, <2>7, <2>8, <2>9, <3>1, <3>2 DEF InputsTaken
  <2>11. InputRead(p)'
    BY <2>7, <2>8 DEF InputRead
  <2>12. InputsKept(p)'
    <3>1. \A k \in 1..n :
            NoOtherWriter(p, Location(job[p].inputs[k])) =>
              old[k].body = Files[Location(job[p].inputs[k])].blocks
      BY <1>1, <2>1, CreateKnows DEF InputsKept
    <3> QED  BY <2>5, <2>6, <2>7, <2>8, <3>1 DEF InputsKept, NoOtherWriter
  <2> QED  BY <1>1, <2>4, <2>7, <2>8, <2>9, <2>10, <2>11, <2>12, EarlyCreate DEF Early
<1>4. \/ Exit(p, "io")
      \/ /\ proc' = [proc EXCEPT ![p].pc = "output", ![p].entries = entries]
         /\ UNCHANGED <<fs, job>>
  BY DEF Build
<1> QED  BY <1>2, <1>3, <1>4

(* Opening the output empties it: the archive begins with nothing.          *)
LEMMA OpenOutputStep ==
  ASSUME NEW U, StateInv(U), NEW p \in Procs, OpenOutput(p)
  PROVE  StepInv(p, U)
<1> DEFINE t == Target(p)
<1>1. job[p].op = "create" /\ proc[p].pc = "output" /\ t \in DOMAIN Files
  BY CreateKnows DEF OpenOutput, At
<1>2. CASE Exit(p, "io")
  BY <1>1, <1>2, ExitStep, SameFiles, LocalTypes DEF Exit
<1>3. CASE /\ Writable(t) /\ fs' = Truncated(t, p)
           /\ proc' = [proc EXCEPT ![p].pc = "write", ![p].size = 0]
           /\ UNCHANGED job
  <2> DEFINE r == [proc[p] EXCEPT !.pc = "write", !.size = 0]
  <2>1. /\ proc[p] \in LocalsOf(U) /\ proc \in [Procs -> LocalsOf(U)]
        /\ Len(proc[p].entries) \in Nat /\ proc[p].entries \in Seq(Archivable(U))
        /\ DOMAIN proc[p].entries = 1..Len(proc[p].entries)
        /\ Hole \in U /\ Closed(U) /\ FsInv(U)
    BY LocalTypes DEF StateInv, Typed
  <2>2. /\ r \in LocalsOf(U) /\ r.pc = "write" /\ r.size = 0
        /\ r.entries = proc[p].entries /\ r.exit = proc[p].exit
    BY <2>1 DEF LocalsOf, Places
  <2>3. Becomes(p, r)
    BY <1>3, <2>1 DEF Becomes
  <2> HIDE DEF r
  <2>4. proc'[p] = r /\ job' = job /\ \A q \in Procs \ {p} : proc'[q] = proc[q]
    BY <1>3, <2>1, <2>3 DEF Becomes
  <2>5. /\ FsStep(p, U) /\ Elsewhere(t)
        /\ p \in fs'[t].by /\ fs'[t].blocks = <<>> /\ fs'[t].kind = "file"
    BY <1>1, <1>3, <2>1, OpenStep
  <2>6. /\ CreatePlace(p) /\ InputsTaken(p) /\ InputsKept(p)
    BY <1>1, CreateKnows
  <2>7. Opened(p) = {} /\ r.exit = "none"
    BY <1>1, <2>2, <2>6 DEF CreatePlace
  <2>8. Target(p)' = t /\ Opened(p)' = {t}
    BY <1>1, <2>4, <2>5, <2>7 DEF Target, Opened, Elsewhere
  <2>9. Grows(p)
    <3>1. fs[t].by \subseteq fs'[t].by /\ p \notin fs[t].by
      BY <1>1, <2>5, <2>7 DEF FsStep, Opened
    <3> QED  BY <3>1 DEF Grows
  <2>10. CreatePlace(p)'
    BY <2>2, <2>4, <2>7, <2>8 DEF CreatePlace
  <2>11. InputsTaken(p)'
    BY <1>1, <2>2, <2>4, <2>6, <2>7 DEF InputsTaken
  <2>12. InputRead(p)'
    BY <2>2, <2>4 DEF InputRead
  <2>13. InputsKept(p)'
    <3> SUFFICES ASSUME NEW k \in DOMAIN proc[p].entries,
                        NoOtherWriter(p, Location(job[p].inputs[k]))'
                 PROVE  proc[p].entries[k].body = Files[Location(job[p].inputs[k])].blocks
      BY <2>2, <2>4 DEF InputsKept
    <3> DEFINE l == Location(job[p].inputs[k])
    <3>1. l \in DOMAIN Files
      BY <1>1, <2>1, <2>6, CreateKnows DEF InputsTaken
    <3>2. NoOtherWriter(p, l)
      BY <2>4, <2>5, <3>1 DEF NoOtherWriter, FsStep
    <3> QED  BY <2>6, <3>2 DEF InputsKept
  <2>14. ArchiveBegun(p)'
    <3> DEFINE B == Blocks(proc[p].entries)
    <3>1. Start(B, 0) = <<>> /\ Len(<<>>) = 0
      BY <2>1, BlocksTyped, StartEnds
    <3> HIDE DEF B
    <3>2. 0 <= Len(proc[p].entries) + 1
      BY <2>1
    <3> QED  BY <2>2, <2>4, <2>5, <2>7, <2>8, <3>1, <3>2 DEF ArchiveBegun, B
  <2>15. ProcInv(p)'
    BY <1>1, <2>4, <2>10, <2>11, <2>12, <2>13, <2>14 DEF ProcInv, CreateInv, ExtractInv
  <2> QED  BY <2>1, <2>2, <2>3, <2>4, <2>5, <2>9, <2>15 DEF StepInv, StepOf, Becomes
<1> QED  BY <1>2, <1>3 DEF OpenOutput

(* A block of a new archive may be added to the blocks there are.          *)
LEMMA BlocksGrow ==
  ASSUME NEW U, Hole \in U, Closed(U), NEW entries \in Seq(Archivable(U)),
         NEW k \in 1..Len(entries) + 1, NEW V, V = U \cup {Piece(entries, k)}
  PROVE  /\ Closed(V) /\ Nodes(U) \subseteq Nodes(V)
         /\ LocalsOf(U) \subseteq LocalsOf(V)
<1>1. /\ Piece(entries, k).entries = entries /\ Piece(entries, k).at = k
  BY DEF Piece, Block
<1>2. EntriesIn(V) = EntriesIn(U) \cup ToSet(entries)
  <2>1. \A W, e : e \in EntriesIn(W) <=> \E b \in W : e \in ToSet(b.entries)
    BY DEF EntriesIn
  <2>2. \A e : e \in EntriesIn(V) <=> e \in EntriesIn(U) \/ e \in ToSet(entries)
    BY <1>1, <2>1
  <2> QED  BY <2>2
<1>3. Seq(U) \subseteq Seq(V)
  BY SeqMonotonic
<1>4. Seq(EntriesIn(U)) \subseteq Seq(EntriesIn(V))
  BY <1>2, SeqMonotonic
<1>5. Archivable(U) \subseteq Archivable(V)
  BY <1>3 DEF Archivable
<1>6. Seq(Archivable(U)) \subseteq Seq(Archivable(V))
  BY <1>5, SeqMonotonic
<1>7. entries \in Seq(ToSet(entries))
  <2>1. Len(entries) \in Nat /\ entries \in [1..Len(entries) -> Archivable(U)]
    BY LenProperties
  <2>2. entries \in [1..Len(entries) -> ToSet(entries)]
    BY <2>1 DEF ToSet
  <2> QED  BY <2>1, <2>2
<1>8. entries \in Seq(EntriesIn(V))
  BY <1>2, <1>7, SeqMonotonic
<1>9. \A e \in ToSet(entries) : e \in Archivable(U)
  BY ElementOfSeq DEF ToSet
<1>10. ASSUME NEW b \in V
       PROVE  /\ b.entries \in Seq(EntriesIn(V))
              /\ b.of = "archive" => b.at \in 1..Len(b.entries) + 1
  BY <1>1, <1>4, <1>8 DEF Closed
<1>11. ASSUME NEW e \in EntriesIn(V)
       PROVE  e.kind \in {"file", "dir"} /\ e.path \in ArchivedPaths /\ e.body \in Seq(V)
  <2>1. CASE e \in EntriesIn(U)
    BY <1>3, <2>1 DEF Closed
  <2>2. CASE e \in ToSet(entries)
    BY <1>3, <1>9, <2>2 DEF Archivable
  <2> QED  BY <1>2, <2>1, <2>2
<1>12. Closed(V)
  BY <1>10, <1>11 DEF Closed
<1>13. Nodes(U) \subseteq Nodes(V)
  BY <1>3 DEF Nodes
<1>14. LocalsOf(U) \subseteq LocalsOf(V)
  <2>1. {Unreadable} \cup EntriesIn(U) \subseteq {Unreadable} \cup EntriesIn(V)
    BY <1>2
  <2> QED  BY <1>3, <1>6, <2>1 DEF LocalsOf
<1> QED  BY <1>12, <1>13, <1>14

(* Each block that is written is the next one of the archive; it may be a   *)
(* block that was nowhere before, so the set of blocks grows.               *)
LEMMA WriteOutputStep ==
  ASSUME NEW U, StateInv(U), NEW p \in Procs, WriteOutput(p)
  PROVE  \E V : LocalsOf(U) \subseteq LocalsOf(V) /\ StepInv(p, V)
<1> DEFINE t == Target(p)
           entries == proc[p].entries
           B == Blocks(entries)
           n == proc[p].size + 1
           V == U \cup {Piece(entries, n)}
           r == [proc[p] EXCEPT !.size = n]
<1>1. /\ job[p].op = "create" /\ proc[p].pc = "write" /\ t \in DOMAIN Files
      /\ n <= Len(B)
      /\ fs' = [fs EXCEPT ![t].blocks = Put(@, n, B[n])]
      /\ proc' = [proc EXCEPT ![p].size = n]
      /\ job' = job
  BY CreateKnows DEF WriteOutput, WriteBlock, At
<1>2. /\ proc[p] \in LocalsOf(U) /\ proc \in [Procs -> LocalsOf(U)]
      /\ entries \in Seq(Archivable(U)) /\ Len(entries) \in Nat
      /\ DOMAIN entries = 1..Len(entries)
      /\ proc[p].size \in Nat /\ Hole \in U /\ Closed(U) /\ FsInv(U)
  BY LocalTypes DEF StateInv, Typed
<1>3. /\ B \in Seq({Piece(entries, k) : k \in Nat}) /\ Len(B) = Len(entries) + 1
      /\ \A k \in 1..Len(entries) + 1 : B[k] = Piece(entries, k)
  BY <1>2, BlocksTyped
<1> HIDE DEF B
<1>4. n \in 1..Len(entries) + 1 /\ n \in Nat \ {0}
  BY <1>1, <1>2, <1>3
<1>5. B[n] = Piece(entries, n)
  BY <1>3, <1>4
<1>6. Becomes(p, r)
  BY <1>1, <1>2 DEF Becomes
<1> HIDE DEF n
<1>7. /\ Closed(V) /\ Nodes(U) \subseteq Nodes(V) /\ LocalsOf(U) \subseteq LocalsOf(V)
      /\ Hole \in V /\ Piece(entries, n) \in V
  BY <1>2, <1>4, BlocksGrow
<1> HIDE DEF V
<1>8. /\ r \in LocalsOf(U) /\ r.pc = "write" /\ r.size = n
      /\ r.entries = entries /\ r.exit = proc[p].exit
  BY <1>1, <1>2, <1>4 DEF LocalsOf
<1> HIDE DEF r
<1>9. proc'[p] = r /\ \A q \in Procs \ {p} : proc'[q] = proc[q]
  BY <1>2, <1>6 DEF Becomes
<1>10. /\ CreatePlace(p) /\ InputsTaken(p) /\ InputsKept(p) /\ ArchiveBegun(p)
  BY <1>1, CreateKnows
<1>11. p \in fs[t].by /\ r.exit = "none"
  BY <1>1, <1>8, <1>10 DEF CreatePlace, Opened
<1>12. FsInv(V)
  BY <1>2, <1>7 DEF FsInv
<1>13. /\ FsStep(p, V) /\ Elsewhere(t)
       /\ fs'[t].by = fs[t].by /\ fs'[t].blocks = Put(fs[t].blocks, n, B[n])
       /\ Len(fs'[t].blocks) >= Len(fs[t].blocks)
  <2>1. B[n] \in V
    BY <1>5, <1>7
  <2> QED  BY <1>1, <1>4, <1>11, <1>12, <2>1, WriteStep
<1>14. StepOf(p, V) /\ Grows(p)
  BY <1>1, <1>8, <1>9, <1>13 DEF StepOf, Grows
<1>15. Target(p)' = t /\ Opened(p)' = Opened(p)
  BY <1>1, <1>13 DEF Target, Opened, Elsewhere
<1>16. CreatePlace(p)'
  BY <1>1, <1>8, <1>9, <1>10, <1>11, <1>15 DEF CreatePlace
<1>17. InputsTaken(p)'
  BY <1>1, <1>8, <1>9, <1>10, <1>11 DEF InputsTaken
<1>18. InputRead(p)'
  BY <1>8, <1>9 DEF InputRead
<1>19. InputsKept(p)'
  <2> SUFFICES ASSUME NEW k \in DOMAIN entries,
                      NoOtherWriter(p, Location(job[p].inputs[k]))'
               PROVE  entries[k].body = Files[Location(job[p].inputs[k])].blocks
    BY <1>1, <1>8, <1>9 DEF InputsKept
  <2> DEFINE l == Location(job[p].inputs[k])
  <2>1. l \in DOMAIN Files
    BY <1>1, <1>2, <1>10, CreateKnows DEF InputsTaken
  <2>2. NoOtherWriter(p, l)
    BY <1>1, <1>13, <2>1 DEF NoOtherWriter, FsStep
  <2> QED  BY <1>10, <2>2 DEF InputsKept
<1>20. ArchiveBegun(p)'
  <2> SUFFICES ASSUME OnlyWriter(p, t)'
               PROVE  /\ fs'[t].blocks = Start(B, Len(fs'[t].blocks))
                      /\ Len(fs'[t].blocks) <= Len(entries) + 1
                      /\ n = Len(fs'[t].blocks)
    BY <1>8, <1>9, <1>11, <1>15 DEF ArchiveBegun, B
  <2>1. OnlyWriter(p, t)
    BY <1>1, <1>13, <1>15 DEF OnlyWriter
  <2> DEFINE m == Len(fs[t].blocks)
  <2>2. fs[t].blocks = Start(B, m) /\ proc[p].size = m
    BY <1>1, <1>10, <2>1 DEF ArchiveBegun, B
  <2>3. m \in Nat /\ n = m + 1 /\ m + 1 <= Len(B)
    BY <1>1, <1>2, <2>2 DEF n
  <2> HIDE DEF m
  <2>4. Put(Start(B, m), m + 1, B[m + 1]) = Start(B, m + 1)
    BY <1>3, <2>3, StartPut
  <2>5. fs'[t].blocks = Start(B, n)
    BY <1>13, <2>2, <2>3, <2>4
  <2>6. n \in 0..Len(B)
    BY <1>3, <1>4
  <2>7. Len(Start(B, n)) = n
    BY <1>3, <2>6, StartTyped
  <2> QED  BY <1>4, <2>5, <2>7
<1>21. ProcInv(p)'
  BY <1>1, <1>9, <1>16, <1>17, <1>18, <1>19, <1>20 DEF ProcInv, CreateInv, ExtractInv
<1>22. StepInv(p, V)
  BY <1>6, <1>7, <1>8, <1>9, <1>14, <1>21 DEF StepInv, Becomes
<1> QED  BY <1>7, <1>22

(* create succeeds when all of the archive is written.                     *)
LEMMA CloseOutputStep ==
  ASSUME NEW U, StateInv(U), NEW p \in Procs, CloseOutput(p)
  PROVE  StepInv(p, U)
<1>1. job[p].op = "create" /\ proc[p].pc = "write"
  BY DEF CloseOutput, At
<1>2. CASE Exit(p, "io")
  BY <1>1, <1>2, ExitStep, SameFiles, LocalTypes DEF Exit
<1>3. CASE CreateSucceeds(p) /\ Exit(p, "ok")
  <2> DEFINE r == [proc[p] EXCEPT !.pc = "done", !.exit = "ok"]
             entries == proc[p].entries
             t == Target(p)
  <2>1. /\ proc[p] \in LocalsOf(U) /\ proc \in [Procs -> LocalsOf(U)]
        /\ entries \in Seq(Archivable(U)) /\ FsInv(U)
    BY LocalTypes DEF StateInv, Typed
  <2>2. /\ r \in LocalsOf(U) /\ r.pc = "done" /\ r.exit = "ok"
        /\ r.entries = entries
    BY <2>1 DEF LocalsOf, Places
  <2>3. Becomes(p, r)
    BY <1>3, <2>1 DEF Becomes, Exit
  <2> HIDE DEF r
  <2>4. proc'[p] = r /\ job' = job /\ fs' = fs
    BY <1>3, <2>1, <2>3 DEF Becomes, Exit
  <2>5. FsStep(p, U) /\ Quiet
    BY <2>1, <2>4, SameFiles
  <2>6. /\ CreatePlace(p) /\ InputsTaken(p) /\ InputsKept(p) /\ ArchiveBegun(p)
    BY <1>1, CreateKnows
  <2>7. Target(p)' = t /\ Opened(p)' = Opened(p)
    BY <2>4 DEF Target, Opened
  <2>8. CreatePlace(p)'
    BY <1>1, <2>2, <2>4, <2>6, <2>7 DEF CreatePlace
  <2>9. InputsTaken(p)'
    BY <1>1, <2>2, <2>4, <2>6 DEF InputsTaken
  <2>10. InputRead(p)'
    BY <2>2, <2>4 DEF InputRead
  <2>11. InputsKept(p)'
    BY <2>2, <2>4, <2>6 DEF InputsKept, NoOtherWriter
  <2>12. ArchiveBegun(p)'
    <3>1. proc[p].size = Len(entries) + 1
      BY <1>3, <2>1, BlocksTyped DEF CreateSucceeds, WriteComplete
    <3> QED  BY <1>1, <2>2, <2>4, <2>6, <2>7, <3>1 DEF ArchiveBegun, OnlyWriter
  <2>13. ProcInv(p)'
    BY <1>1, <2>2, <2>4, <2>8, <2>9, <2>10, <2>11, <2>12
    DEF ProcInv, CreateInv, ExtractInv
  <2> QED  BY <2>2, <2>3, <2>4, <2>5, <2>13, QuietStep
<1> QED  BY <1>2, <1>3 DEF CloseOutput

-----------------------------------------------------------------------------
(* Steps of extract.                                                       *)

(* What a process that runs extract knows, and that its targets have nodes. *)
LEMMA ExtractKnows ==
  ASSUME NEW U, StateInv(U), NEW p \in Procs, job[p].op = "extract"
  PROVE  /\ ExtractPlace(p) /\ ArchiveRead(p) /\ TargetsWritten(p)
         /\ Target(p) \in DOMAIN Files /\ OutDir(p) \in DOMAIN Files
         /\ OutDir(p) \in Seq(STRING)
         /\ \A path \in ArchivedPaths : OutDir(p) \o Location(path) \in DOMAIN Files
<1>1. ProcInv(p) /\ job \in Jobs
  BY LocalTypes
<1>2. OutDir(p) \in DOMAIN Files
  BY <1>1, CommandPlaces
<1> QED  BY <1>1, <1>2, CommandPlaces, FilesAssumption DEF ProcInv, ExtractInv

(* The entries of the archive p has read.                                  *)
LEMMA ArchiveEntries ==
  ASSUME NEW U, StateInv(U), NEW p \in Procs, Parses(proc[p].buf)
  PROVE  /\ proc[p].buf[1] \in U /\ EntryCount(proc[p].buf) \in Nat
         /\ Len(proc[p].buf) \in Nat /\ EntryCount(proc[p].buf) + 1 <= Len(proc[p].buf)
         /\ \A k \in 1..EntryCount(proc[p].buf) :
              proc[p].buf[1].entries[k] \in EntriesIn(U)
<1>1. proc[p].buf \in Seq(U) /\ Len(proc[p].buf) \in Nat /\ Closed(U)
  BY LocalTypes DEF StateInv, Typed
<1>2. Len(proc[p].buf) # 0
  BY <1>1, EmptySeq DEF Parses
<1>3. proc[p].buf[1] \in U
  BY <1>1, <1>2, ElementOfSeq
<1>4. proc[p].buf[1].entries \in Seq(EntriesIn(U))
  BY <1>1, <1>3 DEF Closed
<1>5. /\ Len(proc[p].buf[1].entries) \in Nat
      /\ \A k \in 1..Len(proc[p].buf[1].entries) :
           proc[p].buf[1].entries[k] \in EntriesIn(U)
  BY <1>4, LenProperties, ElementOfSeq
<1>6. Len(proc[p].buf) >= Len(proc[p].buf[1].entries) + 1
  BY DEF Parses, LengthInBounds
<1> QED  BY <1>1, <1>3, <1>5, <1>6 DEF EntryCount

(* A create of the archive that is seen after the step was so before it.   *)
LEMMA CreatorSeen ==
  ASSUME NEW U, NEW p \in Procs, job[p].op = "extract", FsStep(p, U), job' = job,
         Target(p) \in DOMAIN Files, NEW q \in Procs, BeingCreated(q, Target(p))',
         \A o \in Procs \ {p} : proc'[o] = proc[o]
  PROVE  /\ BeingCreated(q, Target(p)) /\ q # p /\ proc'[q] = proc[q]
         /\ fs'[Target(p)].blocks = fs[Target(p)].blocks
<1> DEFINE t == Target(p)
<1>1. Target(p)' = t /\ Target(q)' = Target(q)
  BY DEF Target
<1>2. job[q].op = "create" /\ Target(q) = t /\ Files[t].kind = "absent" /\ fs'[t].by = {q}
  BY <1>1 DEF BeingCreated, OnlyWriter
<1>3. q # p
  BY <1>2
<1>4. fs[t].by = {q} /\ fs'[t].blocks = fs[t].blocks
  BY <1>2, <1>3 DEF FsStep
<1> QED  BY <1>2, <1>3, <1>4 DEF BeingCreated, OnlyWriter

(* A step of extract that opens and writes no file.                         *)
LEMMA QuietExtract ==
  ASSUME NEW U, StateInv(U), NEW p \in Procs, job[p].op = "extract",
         NEW r \in LocalsOf(U), Becomes(p, r), job' = job, FsStep(p, U), Quiet,
         r.entries = proc[p].entries,
         ExtractPlace(p)', ArchiveRead(p)', TargetsWritten(p)'
  PROVE  StepInv(p, U)
<1>1. ProcInv(p)'
  BY DEF ProcInv, ExtractInv, CreateInv
<1> QED  BY <1>1, QuietStep

(* In the loop over the entries the archive remains as it was read.        *)
LEMMA ArchiveKept ==
  ASSUME NEW U, NEW V, StateInv(U), NEW p \in Procs, job[p].op = "extract",
         FsStep(p, V), job' = job, \A o \in Procs \ {p} : proc'[o] = proc[o],
         proc[p].pc \in Extracting, proc'[p].pc \in Extracting \cup {"done"},
         proc'[p].buf = proc[p].buf
  PROVE  ArchiveRead(p)'
<1>1. Target(p)' = Target(p)
  BY DEF Target
<1> SUFFICES ASSUME NEW q \in Procs, BeingCreated(q, Target(p))'
             PROVE  proc[p].buf = Blocks(proc'[q].entries)
  BY <1>1 DEF ArchiveRead, Extracting
<1>2. BeingCreated(q, Target(p)) /\ proc'[q] = proc[q]
  BY CreatorSeen, ExtractKnows
<1> QED  BY <1>2, ExtractKnows DEF ArchiveRead

(* The loop goes on: the file that was being written is reported.          *)
LEMMA ContinueStep ==
  ASSUME NEW U, StateInv(U), NEW p \in Procs, job[p].op = "extract",
         proc[p].pc \in Extracting, job' = job, FsStep(p, U), Quiet,
         NEW messages \in SUBSET {proc[p].j}, Continue(p, messages),
         proc[p].pc = "write" => proc[p].j \in messages
  PROVE  StepInv(p, U)
<1> DEFINE loc == proc[p]
           r == [loc EXCEPT !.pc = "entry", !.j = @ + 1,
                            !.reported = @ \cup messages, !.entry = Unreadable]
           t == Target(p)
<1>1. /\ loc \in LocalsOf(U) /\ proc \in [Procs -> LocalsOf(U)] /\ loc.j \in Nat
  BY LocalTypes DEF StateInv, Typed
<1>2. /\ r \in LocalsOf(U) /\ r.pc = "entry" /\ r.j = loc.j + 1 /\ r.buf = loc.buf
      /\ r.entries = loc.entries /\ r.exit = loc.exit
      /\ r.reported = loc.reported \cup messages
  <2>1. loc.reported \cup messages \in SUBSET Nat
    BY <1>1 DEF LocalsOf
  <2>2. "entry" \in Places /\ loc.j + 1 \in Nat
    BY <1>1 DEF Places
  <2> QED  BY <1>1, <2>1, <2>2 DEF LocalsOf
<1>3. Becomes(p, r)
  BY <1>1 DEF Becomes, Continue
<1> HIDE DEF r
<1>4. proc'[p] = r /\ \A q \in Procs \ {p} : proc'[q] = proc[q]
  BY <1>1, <1>3 DEF Becomes
<1>5. ExtractPlace(p) /\ TargetsWritten(p) /\ t \in DOMAIN Files /\ t' = t
  BY ExtractKnows DEF Target
<1>6. ExtractPlace(p)'
  <2>1. loc.j >= 1 /\ Parses(loc.buf) /\ fs[t].kind = "file" /\ r.exit = "none"
    BY <1>2, <1>5 DEF ExtractPlace, Extracting
  <2>2. fs'[t].kind = "file"
    BY <1>5, <2>1 DEF FsStep
  <2>3. r.j >= 1
    BY <1>1, <1>2
  <2> QED  BY <1>2, <1>4, <1>5, <2>1, <2>2, <2>3 DEF ExtractPlace, Extracting
<1>7. ArchiveRead(p)'
  BY <1>2, <1>4, ArchiveKept DEF Extracting
<1>8. TargetsWritten(p)'
  <2> SUFFICES ASSUME IsWhole(loc.buf), NEW l \in DOMAIN Files, OnlyWriter(p, l)'
               PROVE  Settled(p, l)'
    BY <1>2, <1>4 DEF TargetsWritten, Extracting
  <2>1. OnlyWriter(p, l) /\ fs'[l].blocks = fs[l].blocks
    BY QuietFiles
  <2>2. EntriesFor(p, l)' = EntriesFor(p, l)
    BY <1>2, <1>4 DEF EntriesFor, OutDir
  <2>3. CASE Settled(p, l)
    BY <1>2, <1>4, <2>1, <2>2, <2>3 DEF Settled
  <2>4. CASE loc.pc = "write" /\ l = EntryTarget(p)
    <3>1. EntryTaken(p) /\ loc.j >= 1 /\ loc.entry.kind = "file" /\ Parses(loc.buf)
      BY <1>5, <2>4 DEF TargetsWritten, ExtractPlace, Extracting
    <3>2. loc.j \in 1..EntryCount(loc.buf)
      BY <1>1, <3>1, ArchiveEntries DEF EntryTaken
    <3>3. loc.j \in EntriesFor(p, l)
      BY <2>4, <3>1, <3>2 DEF EntriesFor, EntryTaken, EntryTarget
    <3>4. loc.j \in r.reported
      BY <1>2, <2>4
    <3> QED  BY <1>4, <2>2, <3>3, <3>4 DEF Settled
  <2> QED  BY <1>5, <2>1, <2>3, <2>4 DEF TargetsWritten
<1> QED  BY <1>2, <1>3, <1>6, <1>7, <1>8, QuietExtract

(* The archive is opened, with its size at that time; nothing is read yet.  *)
LEMMA OpenArchiveStep ==
  ASSUME NEW U, StateInv(U), NEW p \in Procs, OpenArchive(p)
  PROVE  StepInv(p, U)
<1> DEFINE t == Target(p)
<1>1. job[p].op = "extract" /\ proc[p].pc = "start"
  BY DEF OpenArchive, At
<1>2. CASE Exit(p, "io")
  BY <1>1, <1>2, ExitStep, SameFiles, LocalTypes DEF Exit
<1>3. CASE /\ fs[t].kind = "file"
           /\ proc' = [proc EXCEPT ![p].pc = "read", ![p].buf = <<>>,
                                   ![p].size = Len(fs[t].blocks)]
           /\ UNCHANGED <<fs, job>>
  <2> DEFINE n == Len(fs[t].blocks)
             r == [proc[p] EXCEPT !.pc = "read", !.buf = <<>>, !.size = n]
  <2>1. /\ proc[p] \in LocalsOf(U) /\ proc \in [Procs -> LocalsOf(U)]
        /\ t \in DOMAIN Files /\ <<>> \in Seq(U) /\ FsInv(U) /\ ExtractPlace(p)
    BY <1>1, LocalTypes, ExtractKnows, EmptySeq DEF StateInv, Typed
  <2>2. n \in Nat
    <3>1. fs[t].blocks \in Seq(U)
      BY <2>1 DEF FsInv, Nodes
    <3> QED  BY <3>1, LenProperties
  <2>3. Becomes(p, r)
    BY <1>3, <2>1 DEF Becomes
  <2> HIDE DEF n
  <2>4. /\ r \in LocalsOf(U) /\ r.pc = "read" /\ r.exit = proc[p].exit
        /\ r.entries = proc[p].entries /\ r.buf = <<>> /\ r.size = n
    BY <2>1, <2>2 DEF LocalsOf, Places
  <2> HIDE DEF r
  <2>5. /\ proc'[p] = r /\ job' = job /\ fs' = fs
        /\ \A q \in Procs \ {p} : proc'[q] = proc[q]
    BY <1>3, <2>1, <2>3 DEF Becomes
  <2>6. FsStep(p, U) /\ Quiet
    BY <2>1, <2>5, SameFiles
  <2>7. Opened(p) = {} /\ r.exit = "none" /\ Opened(p)' = Opened(p) /\ t' = t
    BY <1>1, <2>1, <2>4, <2>5, <2>6, QuietFiles DEF ExtractPlace, Target
  <2>8. Len(<<>>) = 0 /\ Len(<<>>) <= n
    BY <2>2
  <2>9. ExtractPlace(p)'
    BY <1>3, <2>4, <2>5, <2>7, <2>8 DEF ExtractPlace, Extracting
  <2>10. ArchiveRead(p)'
    <3> SUFFICES ASSUME NEW q \in Procs, BeingCreated(q, t)'
                 PROVE  /\ <<>> = Start(Blocks(proc'[q].entries), 0)
                        /\ n <= Len(fs'[t].blocks)
      BY <2>4, <2>5, <2>7, <2>8 DEF ArchiveRead, Extracting
    <3>1. proc'[q] = proc[q]
      BY <1>1, <2>1, <2>5, <2>6, CreatorSeen
    <3>2. Blocks(proc[q].entries) \in Seq({Piece(proc[q].entries, k) : k \in Nat})
      BY LocalTypes, BlocksTyped
    <3>3. <<>> = Start(Blocks(proc[q].entries), 0)
      BY <3>2, StartEnds
    <3>4. n <= Len(fs[t].blocks)
      BY <2>2 DEF n
    <3> QED  BY <2>5, <3>1, <3>3, <3>4
  <2>11. TargetsWritten(p)'
    BY <2>4, <2>5, <2>7 DEF TargetsWritten, Extracting
  <2> QED  BY <1>1, <2>3, <2>4, <2>5, <2>6, <2>9, <2>10, <2>11, QuietExtract
<1> QED  BY <1>2, <1>3 DEF OpenArchive, OpenForReading

(* The blocks read of an archive that is being created are its first ones.  *)
LEMMA ReadArchiveStep ==
  ASSUME NEW U, StateInv(U), NEW p \in Procs, ReadArchive(p)
  PROVE  StepInv(p, U)
<1> DEFINE t == Target(p)
           m == Len(proc[p].buf)
           n == m + 1
<1>1. job[p].op = "extract" /\ proc[p].pc = "read"
  BY DEF ReadArchive, At
<1>2. CASE Exit(p, "io")
  BY <1>1, <1>2, ExitStep, SameFiles, LocalTypes DEF Exit
<1>3. CASE /\ n <= proc[p].size /\ n <= Len(fs[t].blocks)
           /\ proc' = [proc EXCEPT ![p].buf = Append(@, fs[t].blocks[n])]
           /\ UNCHANGED <<fs, job>>
  <2> DEFINE b == fs[t].blocks[n]
             buf == Append(proc[p].buf, b)
             r == [proc[p] EXCEPT !.buf = buf]
  <2>1. /\ proc[p] \in LocalsOf(U) /\ proc \in [Procs -> LocalsOf(U)]
        /\ proc[p].buf \in Seq(U) /\ m \in Nat /\ proc[p].size \in Nat
        /\ t \in DOMAIN Files /\ FsInv(U)
        /\ ExtractPlace(p) /\ ArchiveRead(p)
    BY <1>1, LocalTypes, ExtractKnows DEF StateInv, Typed
  <2>2. fs[t].blocks \in Seq(U) /\ Len(fs[t].blocks) \in Nat
    <3>1. fs[t].blocks \in Seq(U)
      BY <2>1 DEF FsInv, Nodes
    <3> QED  BY <3>1, LenProperties
  <2>3. b \in U
    BY <1>3, <2>1, <2>2, ElementOfSeq
  <2>4. buf \in Seq(U) /\ Len(buf) = n
    BY <2>1, <2>3, AppendProperties
  <2>5. Becomes(p, r)
    BY <1>3, <2>1 DEF Becomes
  <2> HIDE DEF buf
  <2>6. /\ r \in LocalsOf(U) /\ r.pc = "read" /\ r.exit = proc[p].exit
        /\ r.entries = proc[p].entries /\ r.buf = buf /\ r.size = proc[p].size
    BY <1>1, <2>1, <2>4 DEF LocalsOf
  <2> HIDE DEF r
  <2>7. /\ proc'[p] = r /\ job' = job /\ fs' = fs
        /\ \A q \in Procs \ {p} : proc'[q] = proc[q]
    BY <1>3, <2>1, <2>5 DEF Becomes
  <2>8. FsStep(p, U) /\ Quiet
    BY <2>1, <2>7, SameFiles
  <2>9. /\ Opened(p) = {} /\ r.exit = "none" /\ Opened(p)' = Opened(p) /\ t' = t
        /\ fs[t].kind = "file"
    BY <1>1, <2>1, <2>6, <2>7, <2>8, QuietFiles DEF ExtractPlace, Target
  <2>10. ExtractPlace(p)'
    BY <1>3, <2>4, <2>6, <2>7, <2>9 DEF ExtractPlace, Extracting
  <2>11. ArchiveRead(p)'
    <3> SUFFICES ASSUME NEW q \in Procs, BeingCreated(q, t)'
                 PROVE  /\ buf = Start(Blocks(proc'[q].entries), n)
                        /\ proc[p].size <= Len(fs'[t].blocks)
                        /\ n <= proc[p].size
      BY <2>4, <2>6, <2>7, <2>9 DEF ArchiveRead, Extracting
    <3> DEFINE entries == proc[q].entries
               B == Blocks(entries)
    <3>1. proc'[q] = proc[q] /\ BeingCreated(q, t)
      BY <1>1, <2>1, <2>7, <2>8, CreatorSeen
    <3>2. proc[p].buf = Start(B, m) /\ proc[p].size <= Len(fs[t].blocks)
      BY <1>1, <2>1, <3>1 DEF ArchiveRead
    <3>3. job[q].op = "create" /\ OnlyWriter(q, Target(q)) /\ Target(q) = t
      BY <3>1 DEF BeingCreated
    <3>4. fs[t].blocks = Start(B, Len(fs[t].blocks)) /\ Len(fs[t].blocks) <= Len(entries) + 1
      BY <3>3, CreateKnows DEF ArchiveBegun
    <3>5. entries \in Seq(Archivable(U)) /\ Len(entries) \in Nat
      BY LocalTypes
    <3>6. B \in Seq({Piece(entries, k) : k \in Nat}) /\ Len(B) = Len(entries) + 1
      BY <3>5, BlocksTyped
    <3> HIDE DEF B, entries
    <3>7. Len(fs[t].blocks) \in 0..Len(B) /\ m + 1 <= Len(B)
      BY <1>3, <2>1, <2>2, <3>4, <3>5, <3>6
    <3>8. b = B[m + 1]
      <4> DEFINE len == Len(fs[t].blocks)
      <4>1. n \in 1..len
        BY <1>3, <2>1, <2>2
      <4> HIDE DEF len
      <4>2. \A k \in 1..len : Start(B, len)[k] = B[k]
        BY <3>6, <3>7, StartTyped DEF len
      <4> QED  BY <3>4, <4>1, <4>2 DEF len
    <3> HIDE DEF m
    <3>9. Append(Start(B, m), B[m + 1]) = Start(B, m + 1)
      BY <2>1, <3>6, <3>7, StartAppend
    <3> HIDE DEF b
    <3>10. buf = Start(B, n)
      BY <3>2, <3>8, <3>9 DEF buf
    <3> QED  BY <1>3, <2>7, <3>1, <3>2, <3>10 DEF B, entries
  <2>12. TargetsWritten(p)'
    BY <2>6, <2>7, <2>9 DEF TargetsWritten, Extracting
  <2> QED  BY <1>1, <2>5, <2>6, <2>7, <2>8, <2>10, <2>11, <2>12, QuietExtract
<1> QED  BY <1>2, <1>3 DEF ReadArchive, ReadBlock

(* The output directory is made, or cannot be; the buffer stays.            *)
LEMMA MakeOutDirStep ==
  ASSUME NEW U, StateInv(U), NEW p \in Procs, MakeOutDir(p)
  PROVE  StepInv(p, U)
<1> DEFINE t == Target(p)
<1>1. /\ job[p].op = "extract" /\ proc[p].pc = "read" /\ ReadComplete(p)
      /\ fs' = mkdirp(OutDir(p)) /\ job' = job
  BY DEF MakeOutDir, At
<1>2. FsInv(U) /\ OutDir(p) \in Seq(STRING)
  BY <1>1, LocalTypes, ExtractKnows
<1>3. FsStep(p, U) /\ Quiet
  BY <1>1, <1>2, MkdirStep
<1>4. CASE proc' = [proc EXCEPT ![p].pc = "done", ![p].exit = "io"]
  BY <1>1, <1>3, <1>4, ExitStep
<1>5. CASE proc' = [proc EXCEPT ![p].pc = "count"]
  <2> DEFINE r == [proc[p] EXCEPT !.pc = "count"]
  <2>1. /\ proc[p] \in LocalsOf(U) /\ proc \in [Procs -> LocalsOf(U)]
        /\ t \in DOMAIN Files /\ ExtractPlace(p) /\ ArchiveRead(p)
    BY <1>1, LocalTypes, ExtractKnows DEF StateInv, Typed
  <2>2. Becomes(p, r)
    BY <1>5, <2>1 DEF Becomes
  <2>3. /\ r \in LocalsOf(U) /\ r.pc = "count" /\ r.exit = proc[p].exit
        /\ r.entries = proc[p].entries /\ r.buf = proc[p].buf /\ r.size = proc[p].size
    BY <2>1 DEF LocalsOf, Places
  <2> HIDE DEF r
  <2>4. proc'[p] = r /\ \A q \in Procs \ {p} : proc'[q] = proc[q]
    BY <2>1, <2>2 DEF Becomes
  <2>5. /\ Opened(p) = {} /\ r.exit = "none" /\ Opened(p)' = Opened(p) /\ t' = t
        /\ fs'[t].kind = "file"
    BY <1>1, <1>3, <2>1, <2>3, QuietFiles DEF ExtractPlace, Target, FsStep
  <2>6. ExtractPlace(p)'
    BY <2>3, <2>4, <2>5 DEF ExtractPlace, Extracting
  <2>7. ArchiveRead(p)'
    <3> SUFFICES ASSUME NEW q \in Procs, BeingCreated(q, t)'
                 PROVE  /\ proc[p].buf = Start(Blocks(proc'[q].entries), Len(proc[p].buf))
                        /\ proc[p].size <= Len(fs'[t].blocks)
                        /\ Len(proc[p].buf) <= proc[p].size
      BY <2>3, <2>4, <2>5 DEF ArchiveRead, Extracting
    <3>1. /\ proc'[q] = proc[q] /\ BeingCreated(q, t)
          /\ fs'[t].blocks = fs[t].blocks
      BY <1>1, <1>3, <2>1, <2>4, CreatorSeen
    <3> QED  BY <1>1, <2>1, <3>1 DEF ArchiveRead
  <2>8. TargetsWritten(p)'
    BY <2>3, <2>4, <2>5 DEF TargetsWritten, Extracting
  <2> QED  BY <1>1, <1>3, <2>2, <2>3, <2>6, <2>7, <2>8, QuietExtract
<1> QED  BY <1>4, <1>5 DEF MakeOutDir

(* A buffer that parses, of an archive that is being created, has all of it*)
LEMMA CountEntriesStep ==
  ASSUME NEW U, StateInv(U), NEW p \in Procs, CountEntries(p)
  PROVE  StepInv(p, U)
<1> DEFINE t == Target(p)
<1>1. job[p].op = "extract" /\ proc[p].pc = "count"
  BY DEF CountEntries, At
<1>2. CASE Exit(p, "data")
  BY <1>1, <1>2, ExitStep, SameFiles, LocalTypes DEF Exit
<1>3. CASE /\ Parses(proc[p].buf)
           /\ proc' = [proc EXCEPT ![p].pc = "entry", ![p].j = 1]
           /\ UNCHANGED <<fs, job>>
  <2> DEFINE r == [proc[p] EXCEPT !.pc = "entry", !.j = 1]
  <2>1. /\ proc[p] \in LocalsOf(U) /\ proc \in [Procs -> LocalsOf(U)]
        /\ Len(proc[p].buf) \in Nat /\ proc[p].size \in Nat
        /\ t \in DOMAIN Files /\ FsInv(U) /\ ExtractPlace(p) /\ ArchiveRead(p)
    BY <1>1, LocalTypes, ExtractKnows DEF StateInv, Typed
  <2>2. Becomes(p, r)
    BY <1>3, <2>1 DEF Becomes
  <2>3. /\ r \in LocalsOf(U) /\ r.pc = "entry" /\ r.exit = proc[p].exit /\ r.j = 1
        /\ r.entries = proc[p].entries /\ r.buf = proc[p].buf
    BY <2>1 DEF LocalsOf, Places
  <2> HIDE DEF r
  <2>4. /\ proc'[p] = r /\ job' = job /\ fs' = fs
        /\ \A q \in Procs \ {p} : proc'[q] = proc[q]
    BY <1>3, <2>1, <2>2 DEF Becomes
  <2>5. FsStep(p, U) /\ Quiet
    BY <2>1, <2>4, SameFiles
  <2>6. /\ Opened(p) = {} /\ r.exit = "none" /\ Opened(p)' = Opened(p) /\ t' = t
        /\ fs[t].kind = "file"
    BY <1>1, <2>1, <2>3, <2>4, <2>5, QuietFiles DEF ExtractPlace, Target
  <2>7. ExtractPlace(p)'
    <3>1. Parses(r.buf) /\ r.j >= 1
      BY <1>3, <2>3
    <3>2. Parses(proc'[p].buf) /\ proc'[p].j >= 1
      BY <2>4, <3>1
    <3> QED  BY <2>3, <2>4, <2>6, <3>2 DEF ExtractPlace, Extracting
  <2>8. ArchiveRead(p)'
    <3> SUFFICES ASSUME NEW q \in Procs, BeingCreated(q, t)'
                 PROVE  proc[p].buf = Blocks(proc'[q].entries)
      BY <2>3, <2>4, <2>6 DEF ArchiveRead, Extracting
    <3> DEFINE entries == proc[q].entries
               B == Blocks(entries)
               n == Len(proc[p].buf)
    <3>1. proc'[q] = proc[q] /\ BeingCreated(q, t)
      BY <1>1, <2>1, <2>4, <2>5, CreatorSeen
    <3>2. /\ proc[p].buf = Start(B, n) /\ proc[p].size <= Len(fs[t].blocks)
          /\ n <= proc[p].size
      BY <1>1, <2>1, <3>1 DEF ArchiveRead
    <3>3. job[q].op = "create" /\ OnlyWriter(q, Target(q)) /\ Target(q) = t
      BY <3>1 DEF BeingCreated
    <3>4. Len(fs[t].blocks) <= Len(entries) + 1
      BY <3>3, CreateKnows DEF ArchiveBegun
    <3>5. entries \in Seq(Archivable(U)) /\ Len(entries) \in Nat
      BY LocalTypes
    <3>6. Len(fs[t].blocks) \in Nat
      <4>1. fs[t].blocks \in Seq(U)
        BY <2>1 DEF FsInv, Nodes
      <4> QED  BY <4>1, LenProperties
    <3> HIDE DEF B, entries
    <3>7. n \in 0..Len(entries) + 1
      BY <2>1, <3>2, <3>4, <3>5, <3>6
    <3> HIDE DEF n
    <3>8. Parses(Start(B, n))
      BY <1>3, <3>2
    <3>9. Start(B, n) = B
      BY <3>5, <3>7, <3>8, WholeFromStart DEF B
    <3> QED  BY <3>1, <3>2, <3>9 DEF B, entries
  <2>9. TargetsWritten(p)'
    <3>1. \A l \in DOMAIN Files : ~OnlyWriter(p, l)'
      BY <2>4, <2>6 DEF OnlyWriter, Opened
    <3> QED  BY <2>3, <2>4, <3>1 DEF TargetsWritten, Extracting
  <2> QED  BY <1>1, <2>2, <2>3, <2>4, <2>5, <2>7, <2>8, <2>9, QuietExtract
<1> QED  BY <1>2, <1>3 DEF CountEntries

(* At the end of the loop every file written has been dealt with.           *)
LEMMA ExtractDoneStep ==
  ASSUME NEW U, StateInv(U), NEW p \in Procs, ExtractDone(p)
  PROVE  StepInv(p, U)
<1> DEFINE t == Target(p)
           r == [proc[p] EXCEPT !.pc = "done", !.exit = "ok"]
<1>1. /\ job[p].op = "extract" /\ proc[p].pc = "entry"
      /\ proc' = [proc EXCEPT ![p].pc = "done", ![p].exit = "ok"]
      /\ fs' = fs /\ job' = job
  BY DEF ExtractDone, At, Exit
<1>2. /\ proc[p] \in LocalsOf(U) /\ proc \in [Procs -> LocalsOf(U)]
      /\ t \in DOMAIN Files /\ FsInv(U) /\ ExtractPlace(p) /\ TargetsWritten(p)
  BY <1>1, LocalTypes, ExtractKnows DEF StateInv, Typed
<1>3. Becomes(p, r)
  BY <1>1, <1>2 DEF Becomes
<1>4. /\ r \in LocalsOf(U) /\ r.pc = "done" /\ r.exit = "ok"
      /\ r.entries = proc[p].entries /\ r.buf = proc[p].buf
      /\ r.reported = proc[p].reported
  BY <1>2 DEF LocalsOf, Places
<1> HIDE DEF r
<1>5. proc'[p] = r /\ \A q \in Procs \ {p} : proc'[q] = proc[q]
  BY <1>2, <1>3 DEF Becomes
<1>6. FsStep(p, U) /\ Quiet
  BY <1>1, <1>2, SameFiles
<1>7. t' = t /\ fs[t].kind = "file" /\ Opened(p)' = Opened(p)
  BY <1>1, <1>2, <1>6, QuietFiles DEF ExtractPlace, Extracting, Target
<1>8. ExtractPlace(p)'
  BY <1>1, <1>4, <1>5, <1>7 DEF ExtractPlace, Extracting
<1>9. ArchiveRead(p)'
  BY <1>1, <1>4, <1>5, <1>6, ArchiveKept DEF Extracting
<1>10. TargetsWritten(p)'
  <2> SUFFICES ASSUME IsWhole(proc[p].buf), NEW l \in DOMAIN Files, OnlyWriter(p, l)'
               PROVE  Settled(p, l)'
    BY <1>4, <1>5 DEF TargetsWritten, Extracting
  <2>1. OnlyWriter(p, l)
    BY <1>6, QuietFiles
  <2>2. Settled(p, l)
    BY <1>1, <1>2, <2>1 DEF TargetsWritten, Extracting
  <2>3. EntriesFor(p, l)' = EntriesFor(p, l)
    BY <1>1, <1>4, <1>5 DEF EntriesFor, OutDir
  <2> QED  BY <1>1, <1>4, <1>5, <2>2, <2>3 DEF Settled
<1> QED  BY <1>1, <1>3, <1>4, <1>6, <1>8, <1>9, <1>10, QuietExtract

(* Of a whole archive each entry reads back; else what is read is an entry *)
(* of some archive, or nothing.                                            *)
LEMMA EntryRead ==
  ASSUME NEW U, StateInv(U), NEW p \in Procs, Parses(proc[p].buf),
         proc[p].j >= 1, ~EntriesDone(p),
         NEW e \in EntriesReadAt(proc[p].buf, proc[p].j)
  PROVE  /\ e \in {Unreadable} \cup EntriesIn(U)
         /\ proc[p].j <= EntryCount(proc[p].buf)
         /\ IsWhole(proc[p].buf) => e = proc[p].buf[1].entries[proc[p].j]
<1> DEFINE buf == proc[p].buf
           k == proc[p].j
           entries == buf[1].entries
           b == IF k < Len(buf) THEN buf[k + 1] ELSE Hole
           isEntry == b.of = "archive" /\ b.at >= 2
<1>1. /\ buf \in Seq(U) /\ Len(buf) \in Nat /\ k \in Nat /\ Hole \in U /\ Closed(U)
      /\ EntryCount(buf) \in Nat /\ EntryCount(buf) + 1 <= Len(buf)
      /\ \A i \in 1..EntryCount(buf) : entries[i] \in EntriesIn(U)
      /\ buf[1] \in U
  BY LocalTypes, ArchiveEntries DEF StateInv, Typed
<1>2. k \in 1..EntryCount(buf) /\ k <= EntryCount(buf)
  BY <1>1 DEF EntriesDone
<1>3. k < Len(buf) /\ k + 1 \in 1..Len(buf)
  BY <1>1, <1>2
<1>4. b = buf[k + 1] /\ b \in U
  BY <1>1, <1>3, ElementOfSeq
<1>5. \/ b = Piece(entries, k + 1) /\ e = b.entries[k]
      \/ /\ b # Piece(entries, k + 1)
         /\ e = Unreadable \/ (isEntry /\ e = b.entries[b.at - 1])
  BY DEF EntriesReadAt
<1>6. Piece(entries, k + 1).entries = entries
  BY DEF Piece, Block
<1>7. isEntry => b.entries[b.at - 1] \in EntriesIn(U)
  <2> SUFFICES ASSUME isEntry
               PROVE  b.entries[b.at - 1] \in EntriesIn(U)
    OBVIOUS
  <2> HIDE DEF b
  <2>1. b.entries \in Seq(EntriesIn(U)) /\ b.at \in 1..Len(b.entries) + 1
    BY <1>1, <1>4 DEF Closed
  <2>2. Len(b.entries) \in Nat
    BY <2>1, LenProperties
  <2>3. b.at - 1 \in 1..Len(b.entries)
    BY <2>1, <2>2
  <2> QED  BY <2>1, <2>3, ElementOfSeq
<1>8. IsWhole(buf) => b = Piece(entries, k + 1)
  <2> SUFFICES ASSUME IsWhole(buf)
               PROVE  buf[k + 1] = Piece(entries, k + 1)
    BY <1>4
  <2>1. entries \in Seq(EntriesIn(U)) /\ Len(entries) = EntryCount(buf)
    BY <1>1 DEF Closed, EntryCount
  <2> DEFINE B == Blocks(entries)
             n == EntryCount(buf) + 1
  <2>2. /\ B \in Seq({Piece(entries, i) : i \in Nat}) /\ Len(B) = n
        /\ \A i \in 1..n : B[i] = Piece(entries, i)
    BY <2>1, BlocksTyped
  <2>3. SubSeq(B, 1, n) = SubSeq(buf, 1, n)
    BY <2>2 DEF IsWhole, IsPrefix
  <2> HIDE DEF B, n
  <2>4. SubSeq(B, 1, n) = B
    BY <2>2, SubSeqFull
  <2>5. n \in Nat /\ k + 1 \in 1..n /\ n <= Len(buf)
    BY <1>1, <1>2 DEF n
  <2>6. \A i \in 1..n : buf[i] \in U
    BY <1>1, <2>5, ElementOfSeq
  <2>7. \A i \in 1..n - 1 + 1 : SubSeq(buf, 1, n)[i] = buf[1 + i - 1]
    BY <2>5, <2>6, SubSeqProperties
  <2>8. SubSeq(buf, 1, n)[k + 1] = buf[k + 1]
    <3>1. k + 1 \in 1..n - 1 + 1 /\ 1 + (k + 1) - 1 = k + 1
      BY <1>1, <2>5
    <3>2. SubSeq(buf, 1, n)[k + 1] = buf[1 + (k + 1) - 1]
      BY <2>7, <3>1
    <3> QED  BY <3>1, <3>2
  <2> QED  BY <2>2, <2>3, <2>4, <2>5, <2>8
<1> HIDE DEF b, isEntry
<1>9. e \in {Unreadable} \cup EntriesIn(U)
  BY <1>1, <1>2, <1>5, <1>6, <1>7
<1>10. IsWhole(buf) => e = entries[k]
  BY <1>5, <1>6, <1>8
<1> QED  BY <1>2, <1>9, <1>10

(* The loop takes an entry: it makes its directories, and goes on to its    *)
(* file or to the next entry.                                               *)
LEMMA TakeEntryStep ==
  ASSUME NEW U, StateInv(U), NEW p \in Procs, TakeEntry(p)
  PROVE  StepInv(p, U)
<1> DEFINE t == Target(p)
           loc == proc[p]
           l(e) == OutDir(p) \o Location(e.path)
<1>1. /\ job[p].op = "extract" /\ loc.pc = "entry" /\ ~EntriesDone(p) /\ job' = job
  BY DEF TakeEntry, At
<1>2. /\ loc \in LocalsOf(U) /\ proc \in [Procs -> LocalsOf(U)] /\ loc.j \in Nat
      /\ t \in DOMAIN Files /\ FsInv(U) /\ Closed(U)
      /\ ExtractPlace(p) /\ TargetsWritten(p)
  BY <1>1, LocalTypes, ExtractKnows DEF StateInv, Typed
<1>3. loc.j >= 1 /\ Parses(loc.buf) /\ fs[t].kind = "file" /\ loc.exit = "none"
  BY <1>1, <1>2 DEF ExtractPlace, Extracting
<1>4. PICK e \in EntriesReadAt(loc.buf, loc.j) :
        \/ e.kind = "unreadable" /\ Continue(p, {}) /\ fs' = fs
        \/ e.kind = "dir" /\ fs' = mkdirp(l(e)) /\ Continue(p, {})
        \/ /\ e.kind = "file" /\ fs' = mkdirp(Front(l(e)))
           /\ \/ Continue(p, {loc.j})
              \/ proc' = [proc EXCEPT ![p].pc = "target", ![p].entry = e]
  <2>1. PICK e \in EntriesReadAt(loc.buf, loc.j) :
          CASE e.kind = "unreadable" -> Continue(p, {}) /\ UNCHANGED fs
            [] e.kind = "dir" -> fs' = mkdirp(l(e)) /\ Continue(p, {})
            [] e.kind = "file" ->
                 /\ fs' = mkdirp(Front(l(e)))
                 /\ IF Blocked(Front(l(e)))
                    THEN Continue(p, {loc.j})
                    ELSE proc' = [proc EXCEPT ![p].pc = "target", ![p].entry = e]
    BY DEF TakeEntry
  <2>2. e \in {Unreadable} \cup EntriesIn(U)
    BY <1>1, <1>3, EntryRead
  <2>3. e.kind \in {"unreadable", "dir", "file"}
    BY <1>2, <2>2 DEF Unreadable, Closed
  <2>4. CASE e.kind = "unreadable"
    BY <2>1, <2>4
  <2>5. CASE e.kind = "dir"
    BY <2>1, <2>5
  <2>6. CASE e.kind = "file"
    BY <2>1, <2>6
  <2> QED  BY <2>3, <2>4, <2>5, <2>6
<1>5. /\ e \in {Unreadable} \cup EntriesIn(U) /\ loc.j <= EntryCount(loc.buf)
      /\ IsWhole(loc.buf) => e = loc.buf[1].entries[loc.j]
  BY <1>1, <1>3, EntryRead
<1>6. e.kind # "unreadable" =>
        /\ e \in EntriesIn(U) /\ l(e) \in Seq(STRING)
        /\ l(e) # <<>> => Front(l(e)) \in Seq(STRING)
  <2> SUFFICES ASSUME e.kind # "unreadable"
               PROVE  /\ e \in EntriesIn(U) /\ l(e) \in Seq(STRING)
                      /\ l(e) # <<>> => Front(l(e)) \in Seq(STRING)
    OBVIOUS
  <2>1. e \in EntriesIn(U)
    BY <1>5 DEF Unreadable
  <2>2. e.path \in ArchivedPaths
    BY <1>2, <2>1 DEF Closed
  <2>3. l(e) \in Seq(STRING)
    BY <1>1, <2>2, ExtractKnows, FilesAssumption
  <2> QED  BY <2>1, <2>3, FrontPrefix
<1>7. CASE e.kind = "unreadable" /\ Continue(p, {}) /\ fs' = fs
  <2>1. FsStep(p, U) /\ Quiet
    BY <1>2, <1>7, SameFiles
  <2> QED  BY <1>1, <1>7, <2>1, ContinueStep DEF Extracting
<1>8. CASE e.kind = "dir" /\ fs' = mkdirp(l(e)) /\ Continue(p, {})
  <2>1. FsStep(p, U) /\ Quiet
    BY <1>2, <1>6, <1>8, MkdirStep
  <2> QED  BY <1>1, <1>8, <2>1, ContinueStep DEF Extracting
<1>9. CASE e.kind = "file" /\ fs' = mkdirp(Front(l(e)))
  <2>1. Front(l(e)) \in Seq(STRING)
    <3>1. CASE l(e) # <<>>
      BY <1>6, <1>9, <3>1
    <3>2. CASE l(e) = <<>>
      <4>1. Front(<<>>) = <<>>
        BY SubSeqEmpty DEF Front
      <4>2. <<>> \in Seq(STRING)
        BY EmptySeq
      <4> QED  BY <3>2, <4>1, <4>2
    <3> QED  BY <3>1, <3>2
  <2>2. FsStep(p, U) /\ Quiet
    BY <1>2, <1>9, <2>1, MkdirStep
  <2>3. CASE Continue(p, {loc.j})
    BY <1>1, <2>2, <2>3, ContinueStep DEF Extracting
  <2>4. CASE proc' = [proc EXCEPT ![p].pc = "target", ![p].entry = e]
    <3> DEFINE r == [loc EXCEPT !.pc = "target", !.entry = e]
    <3>1. Becomes(p, r)
      BY <1>2, <2>4 DEF Becomes
    <3>2. /\ r \in LocalsOf(U) /\ r.pc = "target" /\ r.exit = loc.exit /\ r.j = loc.j
          /\ r.entries = loc.entries /\ r.buf = loc.buf /\ r.entry = e
          /\ r.reported = loc.reported
      BY <1>2, <1>5 DEF LocalsOf, Places
    <3> HIDE DEF r
    <3>3. proc'[p] = r /\ \A q \in Procs \ {p} : proc'[q] = proc[q]
      BY <1>2, <3>1 DEF Becomes
    <3>4. t' = t /\ Opened(p)' = Opened(p) /\ fs'[t].kind = "file"
      BY <1>1, <1>2, <1>3, <2>2, QuietFiles DEF Target, FsStep
    <3>5. ExtractPlace(p)'
      <4>1. Parses(proc'[p].buf) /\ proc'[p].j >= 1
        BY <1>3, <3>2, <3>3
      <4> QED  BY <1>3, <1>9, <3>2, <3>3, <3>4, <4>1 DEF ExtractPlace, Extracting
    <3>6. ArchiveRead(p)'
      BY <1>1, <2>2, <3>2, <3>3, ArchiveKept DEF Extracting
    <3>7. TargetsWritten(p)'
      <4> SUFFICES ASSUME IsWhole(loc.buf)
                   PROVE  /\ EntryTaken(p)'
                          /\ \A k \in DOMAIN Files : OnlyWriter(p, k)' => Settled(p, k)'
        BY <3>2, <3>3 DEF TargetsWritten, Extracting
      <4>1. EntryTaken(p)'
        BY <1>5, <3>2, <3>3 DEF EntryTaken
      <4>2. ASSUME NEW k \in DOMAIN Files, OnlyWriter(p, k)'
            PROVE  Settled(p, k)'
        <5>1. OnlyWriter(p, k) /\ fs'[k].blocks = fs[k].blocks
          BY <2>2, <4>2, QuietFiles
        <5>2. Settled(p, k)
          BY <1>1, <1>2, <5>1 DEF TargetsWritten, Extracting
        <5>3. EntriesFor(p, k)' = EntriesFor(p, k)
          BY <1>1, <3>2, <3>3 DEF EntriesFor, OutDir
        <5> QED  BY <3>2, <3>3, <5>1, <5>2, <5>3 DEF Settled
      <4> QED  BY <4>1, <4>2
    <3> QED  BY <1>1, <2>2, <3>1, <3>2, <3>5, <3>6, <3>7, QuietExtract
  <2> QED  BY <1>4, <1>9, <2>3, <2>4
<1> QED  BY <1>4, <1>7, <1>8, <1>9

(* A target, once opened, is a file of p's that holds nothing.             *)
LEMMA TargetPlace ==
  ASSUME NEW U, StateInv(U), NEW p \in Procs, job[p].op = "extract",
         proc[p].pc \in Extracting \ {"entry"}
  PROVE  /\ EntryTarget(p) \in DOMAIN Files
         /\ proc[p].entry \in EntriesIn(U) /\ proc[p].entry.kind = "file"
         /\ proc[p].entry.body \in Seq(U)
<1>1. ExtractPlace(p) /\ Closed(U) /\ proc[p] \in LocalsOf(U)
  BY ExtractKnows, LocalTypes DEF StateInv, Typed
<1>2. proc[p].entry.kind = "file" /\ proc[p].entry \in {Unreadable} \cup EntriesIn(U)
  BY <1>1 DEF ExtractPlace, LocalsOf
<1>3. proc[p].entry \in EntriesIn(U)
  BY <1>2 DEF Unreadable
<1>4. proc[p].entry.body \in Seq(U) /\ proc[p].entry.path \in ArchivedPaths
  BY <1>1, <1>3 DEF Closed
<1>5. EntryTarget(p) \in DOMAIN Files
  BY <1>4, ExtractKnows DEF EntryTarget
<1> QED  BY <1>2, <1>3, <1>4, <1>5

(* What a step at the file of an entry leaves of the rest.                 *)
LEMMA TargetStep ==
  ASSUME NEW U, StateInv(U), NEW p \in Procs, job[p].op = "extract",
         proc[p].pc \in {"target", "write"}, job' = job, FsStep(p, U),
         Elsewhere(EntryTarget(p)), p \in fs'[EntryTarget(p)].by,
         NEW n \in Nat,
         proc' = [proc EXCEPT ![p].pc = "write", ![p].size = n],
         IsWhole(proc[p].buf) =>
           /\ n <= Len(proc[p].entry.body)
           /\ fs'[EntryTarget(p)].by = {p} =>
                fs'[EntryTarget(p)].blocks = Start(proc[p].entry.body, n)
  PROVE  StepInv(p, U)
<1> DEFINE t == Target(p)
           l == EntryTarget(p)
           loc == proc[p]
           r == [loc EXCEPT !.pc = "write", !.size = n]
<1>1. /\ loc \in LocalsOf(U) /\ proc \in [Procs -> LocalsOf(U)] /\ l \in DOMAIN Files
      /\ t \in DOMAIN Files /\ ExtractPlace(p) /\ TargetsWritten(p)
      /\ Hole \in U /\ Closed(U)
  BY LocalTypes, ExtractKnows, TargetPlace DEF StateInv, Typed, Extracting
<1>2. Becomes(p, r)
  BY <1>1 DEF Becomes
<1>3. /\ r \in LocalsOf(U) /\ r.pc = "write" /\ r.exit = loc.exit /\ r.j = loc.j
      /\ r.entries = loc.entries /\ r.buf = loc.buf /\ r.entry = loc.entry
      /\ r.reported = loc.reported /\ r.size = n
  BY <1>1 DEF LocalsOf, Places
<1> HIDE DEF r
<1>4. proc'[p] = r /\ \A q \in Procs \ {p} : proc'[q] = proc[q]
  BY <1>1, <1>2 DEF Becomes
<1>5. t' = t /\ l' = l /\ OutDir(p)' = OutDir(p)
  BY <1>3, <1>4 DEF Target, EntryTarget, OutDir
<1>6. /\ loc.j >= 1 /\ Parses(loc.buf) /\ loc.entry.kind = "file"
      /\ fs[t].kind = "file" /\ loc.exit = "none"
  BY <1>1 DEF ExtractPlace, Extracting
<1>7. StepOf(p, U) /\ Grows(p)
  BY <1>4 DEF StepOf, Grows
<1>8. ExtractPlace(p)'
  <2>1. l \in Opened(p)'
    BY <1>1 DEF Opened
  <2>2. Parses(proc'[p].buf) /\ proc'[p].j >= 1 /\ fs'[t].kind = "file"
    BY <1>1, <1>3, <1>4, <1>6 DEF FsStep
  <2> QED  BY <1>3, <1>4, <1>5, <1>6, <2>1, <2>2 DEF ExtractPlace, Extracting
<1>9. ArchiveRead(p)'
  BY <1>3, <1>4, ArchiveKept DEF Extracting
<1>10. TargetsWritten(p)'
  <2> SUFFICES ASSUME IsWhole(loc.buf)
               PROVE  /\ EntryTaken(p)'
                      /\ fs'[l].by = {p} => fs'[l].blocks = Start(loc.entry.body, n)
                      /\ n <= Len(loc.entry.body)
                      /\ \A k \in DOMAIN Files :
                           OnlyWriter(p, k)' /\ k # l => Settled(p, k)'
    BY <1>3, <1>4, <1>5 DEF TargetsWritten, Extracting, OnlyWriter
  <2>1. EntryTaken(p)'
    BY <1>1, <1>3, <1>4 DEF TargetsWritten, EntryTaken, Extracting
  <2>2. ASSUME NEW k \in DOMAIN Files, OnlyWriter(p, k)', k # l
        PROVE  Settled(p, k)'
    <3>1. OnlyWriter(p, k) /\ fs'[k].blocks = fs[k].blocks
      BY <2>2 DEF Elsewhere, OnlyWriter
    <3>2. Settled(p, k)
      BY <1>1, <2>2, <3>1 DEF TargetsWritten, Extracting
    <3>3. EntriesFor(p, k)' = EntriesFor(p, k)
      BY <1>3, <1>4, <1>5 DEF EntriesFor
    <3> QED  BY <1>3, <1>4, <3>1, <3>2, <3>3 DEF Settled
  <2> QED  BY <2>1, <2>2
<1>11. ProcInv(p)'
  BY <1>8, <1>9, <1>10 DEF ProcInv, CreateInv, ExtractInv
<1> QED  BY <1>1, <1>2, <1>3, <1>4, <1>7, <1>11 DEF StepInv, Becomes

(* The file of the entry is opened and empty, or the entry is reported.     *)
LEMMA OpenTargetStep ==
  ASSUME NEW U, StateInv(U), NEW p \in Procs, OpenTarget(p)
  PROVE  StepInv(p, U)
<1> DEFINE l == EntryTarget(p)
<1>1. job[p].op = "extract" /\ proc[p].pc = "target" /\ job' = job
  BY DEF OpenTarget, At
<1>2. FsInv(U)
  BY LocalTypes
<1>3. CASE Continue(p, {proc[p].j}) /\ UNCHANGED fs
  <2>1. FsStep(p, U) /\ Quiet
    BY <1>2, <1>3, SameFiles
  <2> QED  BY <1>1, <1>3, <2>1, ContinueStep DEF Extracting
<1>4. CASE /\ Writable(l) /\ fs' = Truncated(l, p)
           /\ proc' = [proc EXCEPT ![p].pc = "write", ![p].size = 0]
  <2>1. l \in DOMAIN Files /\ proc[p].entry.body \in Seq(U)
    BY <1>1, TargetPlace DEF Extracting
  <2>2. FsStep(p, U) /\ Elsewhere(l) /\ p \in fs'[l].by /\ fs'[l].blocks = <<>>
    BY <1>2, <1>4, <2>1, OpenStep
  <2>3. 0 <= Len(proc[p].entry.body) /\ Start(proc[p].entry.body, 0) = <<>>
    BY <2>1, StartEnds, LenProperties
  <2> QED  BY <1>1, <1>4, <2>2, <2>3, TargetStep
<1> QED  BY <1>3, <1>4 DEF OpenTarget

(* Nothing has been opened yet when there is no memory for the content.     *)
LEMMA ContentFailsStep ==
  ASSUME NEW U, StateInv(U), NEW p \in Procs, ContentFails(p)
  PROVE  StepInv(p, U)
<1>1. /\ job[p].op = "extract" /\ proc[p].pc = "target" /\ job' = job /\ fs' = fs
      /\ Continue(p, {})
  BY DEF ContentFails, At
<1>2. FsStep(p, U) /\ Quiet
  BY <1>1, LocalTypes, SameFiles
<1> QED  BY <1>1, <1>2, ContinueStep DEF Extracting

(* Each block written is the next one of the entry's content.               *)
LEMMA WriteTargetStep ==
  ASSUME NEW U, StateInv(U), NEW p \in Procs, WriteTarget(p)
  PROVE  StepInv(p, U)
<1> DEFINE l == EntryTarget(p)
           body == proc[p].entry.body
           m == proc[p].size
           n == m + 1
<1>1. /\ job[p].op = "extract" /\ proc[p].pc = "write" /\ n <= Len(body)
      /\ fs' = [fs EXCEPT ![l].blocks = Put(@, n, body[n])]
      /\ proc' = [proc EXCEPT ![p].size = n] /\ job' = job
  BY DEF WriteTarget, WriteBlock, At
<1>2. /\ l \in DOMAIN Files /\ body \in Seq(U) /\ Len(body) \in Nat /\ m \in Nat
      /\ FsInv(U) /\ ExtractPlace(p) /\ TargetsWritten(p)
      /\ proc[p] \in LocalsOf(U) /\ proc \in [Procs -> LocalsOf(U)]
  BY <1>1, TargetPlace, LocalTypes, ExtractKnows, LenProperties
  DEF Extracting, StateInv, Typed
<1>3. p \in fs[l].by
  BY <1>1, <1>2 DEF ExtractPlace, Opened
<1>4. n \in Nat \ {0} /\ body[n] \in U
  BY <1>1, <1>2, ElementOfSeq
<1>5. /\ FsStep(p, U) /\ Elsewhere(l) /\ fs'[l].by = fs[l].by
      /\ fs'[l].blocks = Put(fs[l].blocks, n, body[n])
  <2> DEFINE b == body[n]
  <2>1. /\ fs' = [fs EXCEPT ![l].blocks = Put(@, n, b)] /\ b \in U /\ n \in Nat \ {0}
        /\ l \in DOMAIN Files /\ p \in fs[l].by
    BY <1>1, <1>2, <1>3, <1>4
  <2> HIDE DEF b, n, l
  <2>2. FsInv(U)
    BY <1>2
  <2>3. /\ FsStep(p, U) /\ Elsewhere(l)
        /\ fs'[l].by = fs[l].by /\ fs'[l].blocks = Put(fs[l].blocks, n, b)
        /\ Len(fs'[l].blocks) >= Len(fs[l].blocks)
    BY <2>1, <2>2, WriteStep
  <2> QED  BY <2>3 DEF b
<1>6. proc' = [proc EXCEPT ![p].pc = "write", ![p].size = n]
  BY <1>1, <1>2 DEF LocalsOf
<1>7. ASSUME IsWhole(proc[p].buf), fs'[l].by = {p}
      PROVE  fs'[l].blocks = Start(body, n)
  <2>1. fs[l].blocks = Start(body, m)
    BY <1>1, <1>2, <1>5, <1>7 DEF TargetsWritten, OnlyWriter
  <2>2. Put(Start(body, m), m + 1, body[m + 1]) = Start(body, m + 1)
    BY <1>1, <1>2, StartPut
  <2> QED  BY <1>5, <2>1, <2>2
<1>8. p \in fs'[l].by
  BY <1>3, <1>5
<1> QED  BY <1>1, <1>4, <1>5, <1>6, <1>7, <1>8, TargetStep

(* A file that is closed is complete, or the entry is reported.             *)
LEMMA CloseTargetStep ==
  ASSUME NEW U, StateInv(U), NEW p \in Procs, CloseTarget(p)
  PROVE  StepInv(p, U)
<1> DEFINE t == Target(p)
           l == EntryTarget(p)
           loc == proc[p]
<1>1. job[p].op = "extract" /\ loc.pc = "write" /\ job' = job /\ fs' = fs
  BY DEF CloseTarget, At
<1>2. FsStep(p, U) /\ Quiet
  BY <1>1, LocalTypes, SameFiles
<1>3. CASE Continue(p, {loc.j})
  BY <1>1, <1>2, <1>3, ContinueStep DEF Extracting
<1>4. CASE /\ WriteComplete(p, loc.entry.body)
           /\ proc' = [proc EXCEPT ![p].pc = "metadata"]
  <2> DEFINE r == [loc EXCEPT !.pc = "metadata"]
  <2>1. /\ loc \in LocalsOf(U) /\ proc \in [Procs -> LocalsOf(U)] /\ loc.j \in Nat
        /\ l \in DOMAIN Files /\ t \in DOMAIN Files
        /\ ExtractPlace(p) /\ TargetsWritten(p)
        /\ loc.entry.body \in Seq(U) /\ loc.entry.kind = "file"
    BY <1>1, LocalTypes, ExtractKnows, TargetPlace DEF StateInv, Typed, Extracting
  <2>2. Becomes(p, r)
    BY <1>4, <2>1 DEF Becomes
  <2>3. /\ r \in LocalsOf(U) /\ r.pc = "metadata" /\ r.exit = loc.exit /\ r.j = loc.j
        /\ r.entries = loc.entries /\ r.buf = loc.buf /\ r.entry = loc.entry
        /\ r.reported = loc.reported
    BY <2>1 DEF LocalsOf, Places
  <2> HIDE DEF r
  <2>4. proc'[p] = r /\ \A q \in Procs \ {p} : proc'[q] = proc[q]
    BY <2>1, <2>2 DEF Becomes
  <2>5. /\ t' = t /\ l' = l /\ Opened(p)' = Opened(p) /\ OutDir(p)' = OutDir(p)
    BY <1>1, <1>2, <2>3, <2>4, QuietFiles DEF Target, EntryTarget, OutDir
  <2>6. /\ loc.j >= 1 /\ Parses(loc.buf) /\ fs[t].kind = "file" /\ loc.exit = "none"
        /\ l \in Opened(p)
    BY <1>1, <2>1 DEF ExtractPlace, Extracting
  <2>7. ExtractPlace(p)'
    <3>1. Parses(proc'[p].buf) /\ proc'[p].j >= 1
      BY <2>3, <2>4, <2>6
    <3> QED  BY <1>1, <2>1, <2>3, <2>4, <2>5, <2>6, <3>1 DEF ExtractPlace, Extracting
  <2>8. ArchiveRead(p)'
    BY <1>1, <1>2, <2>3, <2>4, ArchiveKept DEF Extracting
  <2>9. TargetsWritten(p)'
    <3> SUFFICES ASSUME IsWhole(loc.buf)
                 PROVE  /\ EntryTaken(p)'
                        /\ \A k \in DOMAIN Files : OnlyWriter(p, k)' => Settled(p, k)'
      BY <2>3, <2>4 DEF TargetsWritten, Extracting
    <3>1. EntryTaken(p)
      BY <1>1, <2>1 DEF TargetsWritten, Extracting
    <3>2. EntryTaken(p)'
      BY <2>3, <2>4, <3>1 DEF EntryTaken
    <3>3. ASSUME NEW k \in DOMAIN Files, OnlyWriter(p, k)'
          PROVE  Settled(p, k)'
      <4>1. OnlyWriter(p, k)
        BY <1>2, <3>3, QuietFiles
      <4>2. EntriesFor(p, k)' = EntriesFor(p, k)
        BY <2>3, <2>4, <2>5 DEF EntriesFor
      <4>3. CASE k # l
        <5>1. Settled(p, k)
          BY <1>1, <2>1, <4>1, <4>3 DEF TargetsWritten, Extracting
        <5> QED  BY <1>1, <2>3, <2>4, <4>2, <5>1 DEF Settled
      <4>4. CASE k = l
        <5>1. fs[l].blocks = Start(loc.entry.body, Len(loc.entry.body))
          BY <1>1, <1>4, <2>1, <4>1, <4>4 DEF TargetsWritten, WriteComplete
        <5>2. fs[l].blocks = loc.entry.body
          BY <2>1, <5>1, StartEnds
        <5>3. loc.j \in 1..EntryCount(loc.buf)
          BY <2>1, <2>6, <3>1, ArchiveEntries DEF EntryTaken
        <5>4. loc.j \in EntriesFor(p, l)
          BY <2>1, <3>1, <5>3 DEF EntriesFor, EntryTaken, EntryTarget
        <5>5. fs[l].blocks = loc.buf[1].entries[loc.j].body
          BY <3>1, <5>2 DEF EntryTaken
        <5> QED  BY <1>1, <2>3, <2>4, <4>2, <4>4, <5>4, <5>5 DEF Settled
      <4> QED  BY <4>3, <4>4
    <3> QED  BY <3>2, <3>3
  <2> QED  BY <1>1, <1>2, <2>2, <2>3, <2>7, <2>8, <2>9, QuietExtract
<1> QED  BY <1>3, <1>4 DEF CloseTarget

(* The reader finds no mode, so no mode is restored.                       *)
LEMMA RestoreMetadataStep ==
  ASSUME NEW U, StateInv(U), NEW p \in Procs, RestoreMetadata(p)
  PROVE  StepInv(p, U)
<1>1. ModeRead(proc[p].entry) = 0
  BY DEF ModeRead, ModeKeyRead, WrittenKeys
<1>2. /\ job[p].op = "extract" /\ proc[p].pc = "metadata" /\ job' = job /\ fs' = fs
      /\ Continue(p, {})
  BY <1>1 DEF RestoreMetadata, At
<1>3. FsStep(p, U) /\ Quiet
  BY <1>2, LocalTypes, SameFiles
<1> QED  BY <1>2, <1>3, ContinueStep DEF Extracting

-----------------------------------------------------------------------------
(* The invariant.                                                          *)

(* At the start the files hold what they hold, and no process has begun.   *)
LEMMA InitInv ==
  ASSUME Init
  PROVE  IInv
<1> DEFINE U == Contents \cup {Hole}
<1>1. fs = Files /\ job \in Jobs
      /\ proc = [p \in Procs |->
                   [Local EXCEPT !.pc = IF job[p].op = "none" THEN "done" ELSE "start"]]
  BY DEF Init
<1>2. Hole \in U /\ Contents \subseteq U /\ Hole.of = "hole" /\ Hole.entries = <<>>
  BY DEF Hole, Block
<1>3. Seq(Contents) \subseteq Seq(U)
  BY <1>2, SeqMonotonic
<1>4. EntriesIn(U) = EntriesIn(Contents)
  <2>1. \A W, e : e \in EntriesIn(W) <=> \E b \in W : e \in ToSet(b.entries)
    BY DEF EntriesIn
  <2>2. \A e : e \notin ToSet(<<>>)
    BY DEF ToSet
  <2>3. \A e : e \in EntriesIn(U) <=> e \in EntriesIn(Contents)
    BY <1>2, <2>1, <2>2
  <2> QED  BY <2>3
<1>5. Closed(U)
  <2>1. ASSUME NEW b \in U
        PROVE  /\ b.entries \in Seq(EntriesIn(U))
               /\ b.of = "archive" => b.at \in 1..Len(b.entries) + 1
    <3>1. CASE b \in Contents
      BY <1>4, <3>1, ContentsAssumption
    <3>2. CASE b = Hole
      BY <1>2, <3>2, EmptySeq
    <3> QED  BY <3>1, <3>2
  <2>2. ASSUME NEW e \in EntriesIn(U)
        PROVE  e.kind \in {"file", "dir"} /\ e.path \in ArchivedPaths /\ e.body \in Seq(U)
    <3>1. e \in EntriesIn(Contents)
      BY <1>4
    <3>2. e.path \in ArchivedPaths
      BY <3>1 DEF ArchivedPaths
    <3> QED  BY <1>3, <3>1, <3>2, ContentsAssumption
  <2> QED  BY <2>1, <2>2 DEF Closed
<1>6. \A l \in DOMAIN Files : Files[l] \in Nodes(U) /\ Files[l].by = {}
  <2> TAKE l \in DOMAIN Files
  <2>1. CASE Files[l] \in {Absent, Directory}
    BY <2>1, EmptyNodes
  <2>2. CASE Files[l] \notin {Absent, Directory}
    <3>1. Files[l] \in [kind : {"file"}, blocks : Seq(Contents), mode : Nat,
                        owner : STRING, by : {{}}]
      BY <2>2, FilesAssumption
    <3>2. Files[l].owner \in Owners
      BY DEF Owners
    <3> QED  BY <1>3, <3>1, <3>2 DEF Nodes
  <2> QED  BY <2>1, <2>2
<1>7. fs \in [DOMAIN Files -> Nodes(U)]
  BY <1>1, <1>6, FilesAssumption
<1>8. TreeInv
  <2> SUFFICES ASSUME NEW l \in DOMAIN Files
               PROVE  /\ Files[l].kind # "file" => Files[l] \in {Absent, Directory}
                      /\ Files[l].kind # "absent" /\ l # <<>> =>
                           Files[Front(l)].kind = "dir"
    BY <1>1 DEF TreeInv
  <2>1. \/ Files[l] \in {Absent, Directory}
        \/ Files[l] \in [kind : {"file"}, blocks : Seq(Contents), mode : Nat,
                         owner : STRING, by : {{}}]
    BY FilesAssumption
  <2>2. Files[l].kind # "file" => Files[l] \in {Absent, Directory}
    BY <2>1
  <2>3. ASSUME Files[l].kind # "absent", l # <<>>
        PROVE  Files[Front(l)].kind = "dir"
    BY <2>3, FilesAssumption, EmptyNodes
  <2> QED  BY <2>2, <2>3
<1>9. FileInv
  BY <1>1, <1>6 DEF FileInv
<1> DEFINE start(p) ==
      [Local EXCEPT !.pc = IF job[p].op = "none" THEN "done" ELSE "start"]
<1>10. \A p \in Procs :
         /\ start(p) \in LocalsOf(U) /\ start(p).entries = <<>>
         /\ start(p).exit = "none" /\ start(p).buf = <<>>
         /\ start(p).pc = IF job[p].op = "none" THEN "done" ELSE "start"
  <2> TAKE p \in Procs
  <2>1. NoName \in Owners /\ <<>> \in Seq(U) /\ <<>> \in Seq(Archivable(U))
    BY EmptySeq DEF Owners
  <2> HIDE DEF U
  <2> QED  BY <2>1 DEF LocalsOf, Local, Places
<1> HIDE DEF start, U
<1>11. proc \in [Procs -> LocalsOf(U)] /\ \A p \in Procs : proc[p] = start(p)
  BY <1>1, <1>10 DEF start
<1>12. ASSUME NEW p \in Procs
       PROVE  ProcInv(p)
  <2>1. /\ proc[p].entries = <<>> /\ proc[p].exit = "none"
        /\ proc[p].pc = IF job[p].op = "none" THEN "done" ELSE "start"
    BY <1>10, <1>11
  <2>2. Opened(p) = {}
    BY <1>1, <1>6 DEF Opened
  <2>3. \A l \in DOMAIN Files : ~OnlyWriter(p, l)
    BY <1>1, <1>6 DEF OnlyWriter
  <2>4. Len(<<>>) = 0 /\ DOMAIN <<>> = {} /\ Len(job[p].inputs) \in Nat
        /\ Target(p) \in DOMAIN Files
    BY <1>1, CommandPlaces
  <2>5. CreateInv(p)
    BY <2>1, <2>2, <2>3, <2>4
    DEF CreateInv, CreatePlace, InputsTaken, InputRead, InputsKept, ArchiveBegun
  <2>6. ExtractInv(p)
    <3> SUFFICES ASSUME job[p].op = "extract"
                 PROVE  ExtractPlace(p) /\ ArchiveRead(p) /\ TargetsWritten(p)
      BY DEF ExtractInv
    <3>1. ExtractPlace(p)
      BY <2>1, <2>2 DEF ExtractPlace, Extracting
    <3>2. ArchiveRead(p)
      BY <2>1, <2>2 DEF ArchiveRead, Extracting
    <3>3. TargetsWritten(p)
      BY <2>1 DEF TargetsWritten, Extracting
    <3> QED  BY <3>1, <3>2, <3>3
  <2> QED  BY <2>1, <2>5, <2>6 DEF ProcInv
<1>13. StateInv(U)
  BY <1>1, <1>2, <1>5, <1>7, <1>8, <1>9, <1>11, <1>12 DEF StateInv, Typed
<1> QED  BY <1>13 DEF IInv

(* Every step of a process preserves the invariant.                        *)
LEMMA ProcessStep ==
  ASSUME NEW U, StateInv(U), NEW p \in Procs, Create(p) \/ Extract(p) \/ Killed(p)
  PROVE  IInv'
<1>1. ASSUME StepInv(p, U)
      PROVE  IInv'
  <2>1. StateInv(U)'
    BY <1>1, StepPreserves
  <2> QED  BY <2>1 DEF IInv
<1>2. CASE Create(p)
  <2>1. CASE WriteOutput(p)
    <3>1. PICK V : LocalsOf(U) \subseteq LocalsOf(V) /\ StepInv(p, V)
      BY <2>1, WriteOutputStep
    <3>2. StateInv(V)'
      BY <3>1, StepPreserves
    <3> QED  BY <3>2 DEF IInv
  <2>2. CASE ~WriteOutput(p)
    <3>1. StepInv(p, U)
      BY <1>2, <2>2, CheckOutputStep, CheckInputStep, OpenInputStep, ReadInputStep,
         StatInputStep, BuildStep, OpenOutputStep, CloseOutputStep
      DEF Create
    <3> QED  BY <1>1, <3>1
  <2> QED  BY <2>1, <2>2
<1>3. CASE Extract(p)
  <2>1. StepInv(p, U)
    BY <1>3, OpenArchiveStep, ReadArchiveStep, MakeOutDirStep, CountEntriesStep,
       TakeEntryStep, OpenTargetStep, ContentFailsStep, WriteTargetStep,
       CloseTargetStep, RestoreMetadataStep, ExtractDoneStep
    DEF Extract
  <2> QED  BY <1>1, <2>1
<1>4. CASE Killed(p)
  <2>1. StepInv(p, U)
    BY <1>4, ExitStep, SameFiles, LocalTypes DEF Killed, Exit
  <2> QED  BY <1>1, <2>1
<1> QED  BY <1>2, <1>3, <1>4

(* The invariant is inductive.                                              *)
LEMMA NextInv ==
  ASSUME IInv, [Next]_vars
  PROVE  IInv'
<1> PICK U : StateInv(U)
  BY DEF IInv
<1>1. CASE Next
  <2>1. PICK p \in Procs : Create(p) \/ Extract(p) \/ Killed(p)
    BY <1>1 DEF Next
  <2> QED  BY <2>1, ProcessStep
<1>2. CASE UNCHANGED vars
  <2>1. fs' = fs /\ job' = job /\ proc' = proc
    BY <1>2 DEF vars
  <2>2. Typed(U)' /\ TreeInv' /\ FileInv' /\ job' \in Jobs
    BY <2>1 DEF StateInv, Typed, TreeInv, FileInv
  <2>3. ASSUME NEW p \in Procs
        PROVE  ProcInv(p)'
    <3>1. ProcInv(p)
      BY DEF StateInv
    <3>2. /\ Opened(p)' = Opened(p) /\ Target(p)' = Target(p) /\ Input(p)' = Input(p)
          /\ EntryTarget(p)' = EntryTarget(p) /\ OutDir(p)' = OutDir(p)
      BY <2>1 DEF Opened, Target, Input, EntryTarget, OutDir
    <3>3. CreateInv(p)'
      BY <2>1, <3>1, <3>2 DEF ProcInv, CreateInv, CreatePlace, InputsTaken, InputRead,
         InputsKept, ArchiveBegun, OnlyWriter, NoOtherWriter
    <3>4. ExtractInv(p)'
      <4> SUFFICES ASSUME job[p].op = "extract"
                   PROVE  ExtractPlace(p)' /\ ArchiveRead(p)' /\ TargetsWritten(p)'
        BY <2>1 DEF ExtractInv
      <4>1. ExtractPlace(p) /\ ArchiveRead(p) /\ TargetsWritten(p)
        BY <3>1 DEF ProcInv, ExtractInv
      <4>2. \A l : EntriesFor(p, l)' = EntriesFor(p, l)
        BY <2>1, <3>2 DEF EntriesFor
      <4>3. \A l : Settled(p, l)' <=> Settled(p, l)
        BY <2>1, <4>2 DEF Settled
      <4>4. \A q \in Procs : \A l : BeingCreated(q, l)' <=> BeingCreated(q, l)
        BY <2>1 DEF BeingCreated, OnlyWriter, Target
      <4>5. ExtractPlace(p)'
        BY <2>1, <3>2, <4>1 DEF ExtractPlace
      <4>6. ArchiveRead(p)'
        BY <2>1, <3>2, <4>1, <4>4 DEF ArchiveRead
      <4>7. TargetsWritten(p)'
        BY <2>1, <3>2, <4>1, <4>3 DEF TargetsWritten, OnlyWriter, EntryTaken
      <4> QED  BY <4>5, <4>6, <4>7
    <3> QED  BY <2>1, <3>1, <3>3, <3>4 DEF ProcInv
  <2>4. StateInv(U)'
    BY <2>2, <2>3 DEF StateInv
  <2> QED  BY <2>4 DEF IInv
<1> QED  BY <1>1, <1>2

(* The invariant holds in every reachable state, whatever the processes    *)
(* run and wherever they are interrupted.                                  *)
THEOREM Invariance == Spec => []IInv
<1>1. Init => IInv
  BY InitInv
<1>2. IInv /\ [Next]_vars => IInv'
  BY NextInv
<1> QED  BY <1>1, <1>2, PTL DEF Spec

-----------------------------------------------------------------------------
(* The properties.                                                         *)

(* The file system remains a tree in which only files have contents, and a *)
(* process never holds more of a file than it asked for.                   *)
THEOREM TypeCorrect == Spec => []TypeOK
<1>1. IInv => TypeOK
  <2> SUFFICES ASSUME NEW U, StateInv(U)
               PROVE  TypeOK
    BY DEF IInv
  <2>1. job \in Jobs /\ fs \in [DOMAIN Files -> Nodes(U)] /\ DOMAIN fs = DOMAIN Files
    BY DEF StateInv, Typed
  <2>2. \A l \in DOMAIN Files :
          /\ fs[l].kind \in {"absent", "dir", "file"}
          /\ fs[l].by \subseteq Procs
    BY <2>1 DEF Nodes
  <2>3. \A l \in DOMAIN Files :
          /\ fs[l].kind # "file" => fs[l] \in {Absent, Directory}
          /\ fs[l].kind # "absent" /\ l # <<>> => fs[Front(l)].kind = "dir"
    BY DEF StateInv, TreeInv
  <2>4. ASSUME NEW p \in Procs
        PROVE  /\ proc[p].pc \in Places
               /\ proc[p].exit \in {"none", "ok", "usage", "io", "data", "killed"}
               /\ Len(proc[p].buf) <= proc[p].size \/ proc[p].pc # "read"
    <3>1. proc[p] \in LocalsOf(U) /\ ProcInv(p) /\ job \in Jobs
      BY LocalTypes
    <3>2. job[p].op \in {"none", "create", "extract"}
      BY <3>1, CommandPlaces
    <3>3. Len(proc[p].buf) <= proc[p].size \/ proc[p].pc # "read"
      BY <3>1, <3>2 DEF ProcInv, CreateInv, InputRead, ExtractInv, ExtractPlace
    <3> QED  BY <3>1, <3>3 DEF LocalsOf
  <2> QED  BY <2>1, <2>2, <2>3, <2>4 DEF TypeOK
<1> QED  BY <1>1, Invariance, PTL

(* A create that succeeded has left a whole archive in the output, unless  *)
(* another process wrote to it.                                            *)
THEOREM ArchiveWhole == Spec => []SuccessLeavesWholeArchive
<1>1. IInv => SuccessLeavesWholeArchive
  <2> SUFFICES ASSUME NEW U, StateInv(U), NEW p \in Procs, Succeeded(p, "create"),
                      OnlyWriter(p, Target(p))
               PROVE  fs[Target(p)].blocks = Blocks(proc[p].entries)
    BY DEF IInv, SuccessLeavesWholeArchive
  <2> DEFINE B == Blocks(proc[p].entries)
  <2>1. job[p].op = "create" /\ proc[p].exit = "ok"
    BY DEF Succeeded
  <2>2. fs[Target(p)].blocks = Start(B, Len(proc[p].entries) + 1)
    BY <2>1, CreateKnows DEF ArchiveBegun
  <2>3. /\ B \in Seq({Piece(proc[p].entries, k) : k \in Nat})
        /\ Len(B) = Len(proc[p].entries) + 1
    <3>1. proc[p].entries \in Seq(Archivable(U))
      BY LocalTypes
    <3> QED  BY <3>1, BlocksTyped
  <2> QED  BY <2>2, <2>3, StartEnds
<1> QED  BY <1>1, Invariance, PTL

(* Its entries are the inputs, in their order, as they were at the start   *)
(* unless another process wrote to them.                                   *)
THEOREM InputsUnchanged == Spec => []InputsArchivedAsTheyWere
<1>1. IInv => InputsArchivedAsTheyWere
  <2> SUFFICES ASSUME NEW U, StateInv(U), NEW p \in Procs, Succeeded(p, "create")
               PROVE  /\ Len(proc[p].entries) = Len(job[p].inputs)
                      /\ InputsKept(p)
    BY DEF IInv, InputsArchivedAsTheyWere, InputsKept
  <2>1. job[p].op = "create" /\ proc[p].exit = "ok"
    BY DEF Succeeded
  <2> QED  BY <2>1, CreateKnows DEF InputsTaken
<1> QED  BY <1>1, Invariance, PTL

(* A file that a finished extract wrote and did not report is complete.    *)
THEOREM FilesComplete == Spec => []UnreportedFilesComplete
<1>1. IInv => UnreportedFilesComplete
  <2> SUFFICES ASSUME NEW U, StateInv(U), NEW p \in Procs, Succeeded(p, "extract"),
                      IsWhole(proc[p].buf), NEW l \in DOMAIN fs, OnlyWriter(p, l),
                      EntriesFor(p, l) \cap proc[p].reported = {}
               PROVE  \E k \in EntriesFor(p, l) :
                        fs[l].blocks = proc[p].buf[1].entries[k].body
    BY DEF IInv, UnreportedFilesComplete
  <2>1. job[p].op = "extract" /\ proc[p].exit = "ok"
    BY DEF Succeeded
  <2>2. ExtractPlace(p) /\ TargetsWritten(p) /\ l \in DOMAIN Files
    BY <2>1, ExtractKnows DEF StateInv, Typed
  <2>3. proc[p].pc # "write"
    BY <2>1, <2>2 DEF ExtractPlace
  <2>4. Settled(p, l)
    BY <2>1, <2>2, <2>3 DEF TargetsWritten
  <2> QED  BY <2>4 DEF Settled
<1> QED  BY <1>1, Invariance, PTL

(* An extract beside the first create of its archive has written nothing,  *)
(* or has read all of that archive.                                        *)
THEOREM AllOrNothing == Spec => []ExtractTakesAllOrNothing
<1>1. IInv => ExtractTakesAllOrNothing
  <2> SUFFICES ASSUME NEW U, StateInv(U), NEW p \in Procs, NEW q \in Procs,
                      job[p].op = "extract", NEW l \in DOMAIN fs, p \in fs[l].by,
                      job[q].op = "create", Target(q) = Target(p),
                      Files[Target(p)].kind = "absent", OnlyWriter(q, Target(p))
               PROVE  proc[p].buf = Blocks(proc[q].entries)
    BY DEF IInv, ExtractTakesAllOrNothing
  <2>1. l \in Opened(p)
    BY DEF StateInv, Typed, Opened
  <2>2. BeingCreated(q, Target(p))
    BY DEF BeingCreated
  <2> QED  BY <2>1, <2>2, ExtractKnows DEF ArchiveRead
<1> QED  BY <1>1, Invariance, PTL

=============================================================================
