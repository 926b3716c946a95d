----------------------------- MODULE ArchiveReader -----------------------------
(***************************************************************************)
(* Reading an archive back after a bit of it may have flipped: the read    *)
(* calls of the C API (c_api.zig), ArchiveReader (mini_blar.zig), the      *)
(* header parser (container.zig), the readers of arrays, dicts and leaves, *)
(* and decompressContainer (compression_zstd.zig).                         *)
(*                                                                         *)
(* The bytes of an archive are a tree of containers: a container is named  *)
(* by the sequence of numbers that leads to it from the outer array, <<>>. *)
(* <<1>> is the magic, <<2>> the body, <<2, i>> its entry i.  A FILE is an *)
(* array of its metadata and its data, a dict alternates keys and values.  *)
(* The offset of child j in a container is 10 * j, of the child's own      *)
(* children 10 * j + 1 and so on; Inside is an offset at which nothing     *)
(* begins, Unreadable one that does not decode.                            *)
(***************************************************************************)
EXTENDS ArchiveFormat

CONSTANT Archives   \* what was archived: [entries, comp]

ASSUME ArchivesAssumption ==
  \A a \in Archives :
    /\ a.comp \in CompIds
    /\ a.entries \in Seq(ToSet(a.entries))
    /\ \A i \in DOMAIN a.entries : IsEntry(a.entries[i])

VARIABLES
  archive,   \* what was archived
  written,   \* its containers as they were written
  stored,    \* the containers as they are now
  answer     \* the call made last and what it gave

vars == <<archive, written, stored, answer>>

-----------------------------------------------------------------------------
(* Containers as they are written                                          *)

TypeSigil == 1
CompSigil == 16
DecompLenSigil == 17
CsumSigil == 18
EncSigil == 19
SegSigil == 20
SigSigil == 32
ValSigil == 127
Sigils == {TypeSigil, CompSigil, DecompLenSigil, CsumSigil, EncSigil,
           SegSigil, SigSigil, ValSigil}

ArrayType == 1
DictType == 2
Utf8Type == 3
DataType == 4
FileType == 5
MapType == 6
DirType == 7

None == 0           \* an attribute that is not there
Xxhash64 == 2
Blake3_128 == 3
Zstd == 4
DecompressedLength == 64

(* The values parseLPHeader accepts after each sigil.                      *)
ValidValues(sigil) ==
  IF sigil = TypeSigil THEN (1..7) \cup {9}
  ELSE IF sigil = CompSigil THEN 1..4
  ELSE IF sigil = CsumSigil THEN 1..3 ELSE 0..127

Header(type, comp, csum) ==
  << <<TypeSigil, type>> >>
  \o (IF comp = None THEN <<>>
      ELSE << <<CompSigil, comp>>, <<DecompLenSigil, DecompressedLength>> >>)
  \o (IF csum = None THEN <<>> ELSE << <<CsumSigil, csum>> >>)
  \o << <<ValSigil, None>> >>

Leaf(type, comp, csum, payload) ==
  [attrs |-> Header(type, comp, csum), length |-> "own", index |-> <<>>,
   end |-> 0, payload |-> payload, sum |-> "right"]
Indexed(type, csum, n) ==
  [attrs |-> Header(type, None, csum), length |-> "own",
   index |-> [k \in 1..n |-> 10 * k], end |-> 10 * (n + 1),
   payload |-> <<>>, sum |-> "right"]

Text(t) == Leaf(Utf8Type, None, None, t)
Pairs(k1, v1, k2, v2) == <<Text(k1), v1, Text(k2), v2>>

(* The containers of an entry, by what leads to them from the entry.       *)
FileNames == {<<>>, <<1>>, <<2>>} \cup {<<1, k>> : k \in 1..4}
DirNames == {<<>>} \cup {<<k>> : k \in 1..4}

(* A FILE: metadata (the path and one other text stand for all of it) and  *)
(* data, which is a compressed image of a DATA container or the content.   *)
FileNode(f, comp, q) ==
  LET data == FileContainer(f, comp).data
  IN  CASE q = <<>> -> Indexed(FileType, Xxhash64, 2)
        [] q = <<1>> -> Indexed(DictType, None, 4)
        [] q = <<2>> -> IF data.comp = "zstd"
                        THEN Leaf(DataType, Zstd, Xxhash64, <<"zstd", data.body>>)
                        ELSE Leaf(DataType, None, Xxhash64, <<data.body>>)
        [] OTHER -> Pairs(<<"pa">>, Text(f.path), <<"un">>, Text(<<"owner">>))[q[2]]
DirNode(d, q) ==
  IF q = <<>> THEN Indexed(DirType, Xxhash64, 4)
  ELSE Pairs(<<"pa">>, Text(d.path),
             <<"xh">>, Leaf(DataType, None, None, <<"hash">>))[q[1]]

Root == <<>>
Body == <<2>>
EntryNames(e, i) == {<<2, i>> \o q : q \in IF IsFile(e) THEN FileNames ELSE DirNames}
Names(entries) ==
  {Root, <<1>>, Body} \cup UNION {EntryNames(entries[i], i) : i \in DOMAIN entries}
Serialized(a) ==
  LET entry(n, q) == IF IsFile(a.entries[n[2]]) THEN FileNode(a.entries[n[2]], a.comp, q)
                                                ELSE DirNode(a.entries[n[2]], q)
  IN  [n \in Names(a.entries) |->
         CASE n = Root -> Indexed(ArrayType, Blake3_128, 2)
           [] n = <<1>> -> Leaf(DataType, None, None, <<Magic(a.entries)>>)
           [] n = Body -> Indexed(ArrayType, None, Len(a.entries))
           [] OTHER -> entry(n, SubSeq(n, 3, Len(n)))]

Under(n) == {m \in DOMAIN stored : IsPrefix(n, m)}

-----------------------------------------------------------------------------
(* parseLPHeader                                                           *)

NoNode == <<0>>     \* an error in the place of a container

SigilAt(n, k) == stored[n].attrs[k][1] % 128      \* @truncate to u7
HeaderPlaces(n) == DOMAIN stored[n].attrs
AttrOf(n, sigil) ==
  IF \E k \in HeaderPlaces(n) : SigilAt(n, k) = sigil
  THEN stored[n].attrs[CHOOSE k \in HeaderPlaces(n) : SigilAt(n, k) = sigil][2]
  ELSE None

Ascending(n) == \A k \in 2 .. Len(stored[n].attrs) : SigilAt(n, k - 1) < SigilAt(n, k)
DecompLenAssumed(n) == TRUE                       \* mutant
DecompLenGiven(n) == AttrOf(n, CompSigil) # None => AttrOf(n, DecompLenSigil) # None

(* No header here is long enough for the key derivation, salt and nonce    *)
(* after ENC: what follows is the next attribute, which is no kdf_id.      *)
parseLPHeader(n) ==
  /\ n # NoNode
  /\ stored[n].length \in {"own", "cut"}
  /\ \A k \in HeaderPlaces(n) :
       /\ SigilAt(n, k) \in Sigils \ {EncSigil, SigSigil}
       /\ stored[n].attrs[k][2] \in ValidValues(SigilAt(n, k))
  /\ SigilAt(n, 1) = TypeSigil
  /\ Ascending(n)
  /\ SigilAt(n, Len(stored[n].attrs)) = ValSigil
  /\ DecompLenGiven(n)

Type(n) == AttrOf(n, TypeSigil)
Csum(n) == AttrOf(n, CsumSigil)

(* The payload is bounded by the length and by the checksum's length.      *)
Failed == <<>>
Damaged == <<"damaged">>
WrittenCsum(n) ==
  LET places == {k \in DOMAIN written[n].attrs : written[n].attrs[k][1] = CsumSigil}
  IN  IF places = {} THEN None ELSE written[n].attrs[CHOOSE k \in places : TRUE][2]
payloadSlice(n) ==
  IF stored[n].length = "cut" \/ Csum(n) # WrittenCsum(n)
  THEN Damaged ELSE stored[n].payload

(* A checksum is right for exactly the bytes it was computed from, with    *)
(* the algorithm it was computed with; a container without one is right.   *)
verifyChecksum(n) == Csum(n) = None \/ \A m \in Under(n) : stored[m] = written[m]

-----------------------------------------------------------------------------
(* Arrays, dicts and leaves                                                *)

IsArray(n) ==      \* ArrayReader.init
  /\ parseLPHeader(n) /\ Type(n) \in {ArrayType, FileType}
  /\ stored[n].length = "own" /\ stored[n].end > 0
IsDict(n) ==       \* DictReader.init
  /\ parseLPHeader(n) /\ Type(n) \in {DictType, MapType, DirType}
  /\ stored[n].length = "own" /\ stored[n].end > 0

Unreadable == -1
Inside == 5
NodeAt(n, offset) ==
  LET child == Append(n, offset \div 10)
      m == IF offset % 10 = 0 THEN child ELSE Append(child, offset % 10)
  IN  IF offset > 0 /\ m \in DOMAIN written THEN m ELSE NoNode
EndOf(offset) == IF offset % 10 = 0 THEN offset + 10 ELSE offset + 1

(* elementBytesAt and valueAt: from an offset to the next or the index.    *)
containerAt(n, i) ==
  IF i \notin DOMAIN stored[n].index THEN NoNode
  ELSE LET from == stored[n].index[i]
           to == IF i < Len(stored[n].index) THEN stored[n].index[i + 1]
                                             ELSE stored[n].end
           m == NodeAt(n, from)
       IN  IF from < to /\ EndOf(from) <= to /\ parseLPHeader(m) THEN m ELSE NoNode

keyAt(n, k) ==     \* a key's extent is its own length
  LET m == NodeAt(n, stored[n].index[2 * k - 1])
  IN  IF parseLPHeader(m) THEN m ELSE NoNode

(* The binary search of findKey; 0 is null, -1 an error.  A damaged key    *)
(* sorts before the others.                                                *)
KeyRank(payload) ==
  CASE payload = <<"pa">> -> 1 [] payload = <<"un">> -> 2 [] payload = <<"xh">> -> 3
    [] OTHER -> 0
Probe(n, key, search, lo, hi) ==
  LET mid == lo + (hi - lo) \div 2
      at == keyAt(n, mid)
      rank == KeyRank(payloadSlice(at))
  IN  IF lo >= hi THEN 0
      ELSE IF at = NoNode THEN -1
      ELSE IF rank = KeyRank(key) THEN mid
      ELSE IF rank < KeyRank(key) THEN search[<<mid + 1, hi>>] ELSE search[<<lo, mid>>]
findKey(n, key) ==
  LET bounds == 1 .. (Len(stored[n].index) \div 2) + 1
      search[r \in bounds \X bounds] == Probe(n, key, search, r[1], r[2])
  IN  search[<<1, (Len(stored[n].index) \div 2) + 1>>]

ValueOf(n, key) ==
  IF IsDict(n) /\ findKey(n, key) > 0 THEN containerAt(n, 2 * findKey(n, key)) ELSE NoNode

readLeaf(n, type) ==   \* readUtf8, readData
  IF parseLPHeader(n) /\ Type(n) = type THEN payloadSlice(n) ELSE Failed

-----------------------------------------------------------------------------
(* ArchiveReader; entries are numbered from 1                              *)

BodyNode == IF IsArray(Root) THEN containerAt(Root, 2) ELSE NoNode
entryCount == IF IsArray(BodyNode) THEN Len(stored[BodyNode].index) ELSE -1
entryBufAt(i) == IF IsArray(BodyNode) THEN containerAt(BodyNode, i) ELSE NoNode
entryTypeAt(i) == IF entryBufAt(i) = NoNode THEN None ELSE Type(entryBufAt(i))

PartOf(e, k) == IF IsArray(e) THEN containerAt(e, k) ELSE NoNode
entryPathAt(i) ==
  LET e == entryBufAt(i)
  IN  readLeaf(ValueOf(IF entryTypeAt(i) = FileType THEN PartOf(e, 1) ELSE e, <<"pa">>),
               Utf8Type)

fileContentAt(i) == readLeaf(PartOf(entryBufAt(i), 2), DataType)

DataVerified(i) ==                                \* mutant
  LET e == entryBufAt(i)
      data == PartOf(e, 2)
  IN  IF entryTypeAt(i) = DirType THEN IsDict(e) /\ verifyChecksum(e)
      ELSE data # NoNode /\ verifyChecksum(data)
WholeArchiveVerified(i) ==                        \* mutant
  IsArray(entryBufAt(i)) /\ verifyChecksum(Root)
verifyFileAt(i) ==
  LET e == entryBufAt(i)
      data == PartOf(e, 2)
  IN  IF entryTypeAt(i) = DirType THEN IsDict(e) /\ verifyChecksum(e)
      ELSE IsArray(e) /\ verifyChecksum(e) /\ data # NoNode /\ verifyChecksum(data)

AnyWithPath(path) ==                              \* mutant
  SelectLastInSeq([i \in 1 .. entryCount |-> i], LAMBDA i : entryPathAt(i) = path)
findFile(path) ==
  LET hits == {i \in 1 .. entryCount : entryPathAt(i) = path}
      failures == {i \in 1 .. entryCount : entryPathAt(i) = Failed}
      first == SelectInSeq([i \in 1 .. entryCount |-> i],
                           LAMBDA i : i \in hits \cup failures)
  IN  IF entryCount >= 0 /\ first \in hits THEN first ELSE 0

(* decompressContainer hands to the decoder what the checksum vouches for. *)
Unvouched(n) == TRUE                              \* mutant
Vouched(n) == verifyChecksum(n)
DecoderInput(n) ==
  IF parseLPHeader(n) /\ AttrOf(n, CompSigil) = Zstd /\ Vouched(n)
  THEN payloadSlice(n) ELSE Failed
Decoded(bytes) == IF Len(bytes) = 2 THEN <<bytes[2]>> ELSE Failed

fileContentDecompress(i) ==
  LET data == PartOf(entryBufAt(i), 2)
  IN  IF data # NoNode /\ AttrOf(data, CompSigil) # None
      THEN Decoded(DecoderInput(data)) ELSE readLeaf(data, DataType)

-----------------------------------------------------------------------------
(* Flips of a bit                                                          *)

FlipBit(byte, k) == IF (byte \div 2^k) % 2 = 0 THEN byte + 2^k ELSE byte - 2^k

(* A bit of a sigil or of the sentinel byte before it (0 is no sigil), or  *)
(* of an attribute's value: from 128 on the byte begins a longer number.   *)
FlippedAttrs(attrs) ==
  UNION {{[attrs EXCEPT ![k][1] = s] : s \in {0} \cup {FlipBit(attrs[k][1], b) : b \in 0..7}}
         \cup {[attrs EXCEPT ![k][2] = FlipBit(attrs[k][2], b)] : b \in 0..7}
         : k \in DOMAIN attrs}

Offsets(n) ==
  {Unreadable} \cup
  {10 * j + s : j \in 1 .. Len(stored[n].index) + 1, s \in {0, 1, 2, Inside}}
FlippedIndexes(n) ==
  LET index == stored[n].index
  IN  {[index EXCEPT ![k] = p] : k \in DOMAIN index, p \in Offsets(n)}
      \cup {SubSeq(index, 1, k) : k \in 0..Len(index)}
      \cup {Append(index, p) : p \in Offsets(n)}

FlippedNodes(n) ==
  LET node == stored[n]
  IN  {[node EXCEPT !.attrs = a] : a \in {b \in FlippedAttrs(node.attrs) :
                                            b[Len(b)][2] = None}}
      \cup {[node EXCEPT !.length = l] : l \in {"long", "tiny", "cut"}}
      \cup (IF node.end = 0 THEN {[node EXCEPT !.payload = Damaged]}
            ELSE {[node EXCEPT !.index = x] : x \in FlippedIndexes(n) \ {node.index}}
                 \cup {[node EXCEPT !.end = 0]}
                 \cup UNION {{[node EXCEPT !.end = 10 * j, !.index = <<p>>] :
                               p \in Offsets(n)} : j \in DOMAIN node.index})
      \cup (IF WrittenCsum(n) = None THEN {} ELSE {[node EXCEPT !.sum = "wrong"]})

NoAnswer == [call |-> "none", index |-> 0, result |-> <<>>]

(* Bound: one flip.                                                        *)
BitFlip ==
  /\ stored = written /\ answer = NoAnswer
  /\ \E n \in DOMAIN stored : \E node \in FlippedNodes(n) :
       stored' = [stored EXCEPT ![n] = node]
  /\ UNCHANGED <<archive, written, answer>>

-----------------------------------------------------------------------------
(* The calls of the C API and fileContentDecompress; they change nothing.  *)

Ok == <<"ok">>
Verdict(ok) == IF ok THEN Ok ELSE <<"not ok">>

(* Bound: the answer to one call is kept; no call depends on another.      *)
Answer(call, i, result) ==
  /\ answer = NoAnswer
  /\ answer' = [call |-> call, index |-> i, result |-> result]
  /\ UNCHANGED <<archive, written, stored>>

blar_archive_verify ==
  Answer("verify", 0, Verdict(IsArray(Root) /\ verifyChecksum(Root)))
blar_archive_file_verify(i) == Answer("file_verify", i, Verdict(verifyFileAt(i)))
blar_archive_file_path(i) == Answer("file_path", i, entryPathAt(i))
blar_archive_file_content(i) == Answer("file_content", i, fileContentAt(i))
blar_archive_file_content_by_path(i) ==
  LET k == findFile(archive.entries[i].path)
  IN  Answer("by_path", i, IF k = 0 THEN Failed ELSE fileContentAt(k))
blar_archive_entry_count == Answer("entry_count", entryCount, <<>>)
blar_archive_entry_type(i) ==
  Answer("entry_type", i, Verdict(entryTypeAt(i) = (IF IsFile(archive.entries[i])
                                                    THEN FileType ELSE DirType)))
Decompress(i) == Answer("decompress", i, fileContentDecompress(i))

Init ==
  /\ archive \in Archives
  /\ written = Serialized(archive)
  /\ stored = written
  /\ answer = NoAnswer

Next ==
  \/ BitFlip
  \/ blar_archive_verify
  \/ blar_archive_entry_count
  \/ \E i \in DOMAIN archive.entries :
       \/ blar_archive_file_verify(i)
       \/ blar_archive_file_path(i)
       \/ blar_archive_file_content(i)
       \/ blar_archive_file_content_by_path(i)
       \/ blar_archive_entry_type(i)
       \/ Decompress(i)
  \/ answer # NoAnswer /\ UNCHANGED vars

Spec == Init /\ [][Next]_vars

-----------------------------------------------------------------------------
(* Properties                                                              *)

ContentOf(e) == <<e.body>>
StoredContentOf(e) ==
  IF FileContainer(e, archive.comp).data.comp = "zstd" THEN <<"zstd", e.body>> ELSE <<e.body>>

(* blar_archive_verify: what the outer checksum approves is, to the bit,   *)
(* what was written.  (No single flip in the attribute that announces the  *)
(* checksum hides it.)                                                     *)
VerifiedIsAsWritten == answer.call = "verify" /\ answer.result = Ok => stored = written

(* blar_archive_file_verify: path and content read at an index it approves *)
(* belong together: some entry was archived with both, although the index  *)
(* of the body, which it does not check, may lead to another entry.        *)
VerifiedEntryWasArchived ==
  answer.call = "file_verify" /\ answer.result = Ok =>
    \E e \in ToSet(archive.entries) :
      /\ entryPathAt(answer.index) = e.path
      /\ IF IsFile(e)
         THEN /\ fileContentAt(answer.index) = StoredContentOf(e)
              /\ fileContentDecompress(answer.index) = ContentOf(e)
         ELSE entryTypeAt(answer.index) = DirType

(* "verify-before-decompress: never feed corrupted bytes to the decoder".  *)
(* (Calls change nothing: what holds before a call is enough, here and in  *)
(* OtherEntriesUnharmed.)                                                  *)
DecoderSeesWrittenBytes ==
  answer = NoAnswer => \A i \in 1 .. entryCount :
    LET data == PartOf(entryBufAt(i), 2)
    IN  data # NoNode /\ AttrOf(data, CompSigil) # None =>
          DecoderInput(data) \in {Failed, written[data].payload}

(* An archive nobody damaged gives back everything that was put into it,   *)
(* by index and by path (the first entry of that path).                    *)
UndamagedReadsBack ==
  stored = written /\ answer # NoAnswer =>
    LET entries == archive.entries
        e == entries[answer.index]
        named == CHOOSE k \in DOMAIN entries :
                   /\ entries[k].path = e.path
                   /\ \A m \in 1 .. k - 1 : entries[m].path # e.path
    IN  CASE answer.call \in {"verify", "file_verify", "entry_type"} -> answer.result = Ok
          [] answer.call = "entry_count" -> answer.index = Len(entries)
          [] answer.call = "file_path" -> answer.result = e.path
          [] answer.call = "file_content" ->
               answer.result = IF IsFile(e) THEN StoredContentOf(e) ELSE Failed
          [] answer.call = "by_path" ->
               answer.result = IF IsFile(entries[named]) THEN StoredContentOf(entries[named])
                               ELSE Failed
          [] answer.call = "decompress" ->
               answer.result = IF IsFile(e) THEN ContentOf(e) ELSE Failed

(* Damage within one entry costs that entry only: the others can still be  *)
(* verified and read by their index.                                       *)
OtherEntriesUnharmed ==
  answer = NoAnswer => \A j \in DOMAIN archive.entries :
    (\E n \in Under(<<2, j>>) : stored[n] # written[n]) =>
      \A i \in DOMAIN archive.entries \ {j} :
        /\ verifyFileAt(i)
        /\ entryPathAt(i) = archive.entries[i].path
        /\ IsFile(archive.entries[i]) =>
             fileContentDecompress(i) = ContentOf(archive.entries[i])
=============================================================================
