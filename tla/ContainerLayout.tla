---------------------------- MODULE ContainerLayout ----------------------------
(***************************************************************************)
(* How blip lays a container out in bytes and how its readers find the     *)
(* parts again: computeLPLength and writeLPHeader (container.zig),         *)
(* serializeLeaf (leaf.zig), serializeArrayLike and ArrayReader (array.zig)*)
(* and serializeDictLike and DictReader (dict.zig).                        *)
(*                                                                         *)
(* A number takes more bytes the larger it is, and a container's length,   *)
(* the place of its index and the offsets in the index are numbers stored  *)
(* inside the container: each depends on the sizes of the others.  The code*)
(* resolves this by passes that are bounded by a count; a pass is a step.  *)
(* Payload bytes are abstracted to their number.                           *)
(***************************************************************************)
EXTENDS Integers, Sequences, Lists

(* What is to be serialized: kind; sizes of its elements (a dict's keys and*)
(* values alternate; a leaf has one, its payload); keys of a dict; comp,   *)
(* whether it is the wrapper of compressed bytes; csum, a checksum length. *)
CONSTANT Inputs

Kinds == {"leaf", "array", "dict"}
ASSUME InputsAssumption ==
  \A x \in Inputs :
    /\ x.kind \in Kinds /\ x.sizes \in Seq(Nat) /\ x.keys \in Seq(Nat)
    /\ x.kind = "leaf" => Len(x.sizes) = 1
    /\ x.kind = "dict" => Len(x.sizes) = 2 * Len(x.keys)
    /\ x.kind # "leaf" => \A i \in DOMAIN x.sizes : x.sizes[i] > 0
    /\ x.comp \in BOOLEAN /\ x.csum \in {0, 4, 8, 16}

VARIABLES
  input,
  place,           \* where the serializer is, or "written" or "refused"
  outer, inner,    \* passes of the two loops that are over
  iSize,           \* I_size
  valOffset,       \* val_offset
  offsets,         \* offset_storage
  indexOffset,     \* index_offset
  total,
  starts, pos      \* where the elements were written; end of the last write

layoutVars == <<input, place, outer, inner, iSize, valOffset, offsets,
                indexOffset, total, starts, pos>>

-----------------------------------------------------------------------------
(* Sizes of encoded numbers, all below 2^64; a power of 256 is a product,   *)
(* which is not computed for a smaller number.                             *)
minBytes(v) ==
  IF v < 256 THEN 1
  ELSE IF v < 65536 THEN 2
  ELSE IF v < 16777216 THEN 3
  ELSE IF v < 16777216 * 256 THEN 4
  ELSE IF v < 16777216 * 65536 THEN 5
  ELSE IF v < 16777216 * 16777216 THEN 6
  ELSE IF v < 16777216 * 16777216 * 256 THEN 7
  ELSE 8
encodedSize(v) == IF v < 128 THEN 1 ELSE 1 + minBytes(v)

DecompressedLength == 200   \* of the one compressed payload considered

(* TYPE and VAL always, COMP with DECOMP_LEN, CSUM; ids take one byte.     *)
AttrOverhead(x) ==
  3 + 2 + (IF x.comp THEN 3 + 2 + encodedSize(DecompressedLength) ELSE 0)
        + (IF x.csum > 0 THEN 3 ELSE 0)

(* The length counts its own encoding: the first number of bytes that fits.*)
LengthBytes(base) ==
  CHOOSE l \in 1..9 :
    /\ encodedSize(base + l) = l
    /\ \A m \in 1 .. l - 1 : encodedSize(base + m) # m

computeLPLength(x, payload) ==
  LET base == AttrOverhead(x) + payload + x.csum
  IN  base + LengthBytes(base)

HeaderLength(x, length) == encodedSize(length) + AttrOverhead(x)

-----------------------------------------------------------------------------
(* The serializers                                                         *)

DataSize == Total(input.sizes)
Count == IF input.kind = "dict" THEN Len(input.keys) ELSE Len(input.sizes)

Init ==
  /\ input \in Inputs
  /\ place = IF input.kind = "dict" THEN "validate"
             ELSE IF input.kind = "leaf" THEN "write" ELSE "inner"
  /\ outer = 0 /\ inner = 0
  /\ iSize = IF input.kind = "leaf" THEN 0 ELSE 1
  /\ valOffset = 0 /\ offsets = <<>> /\ indexOffset = 0
  /\ total = IF input.kind = "leaf" THEN computeLPLength(input, DataSize) ELSE 0
  /\ starts = <<>> /\ pos = 0

(* validateKeyOrder: strictly ascending.                                   *)
KeysUnchecked == TRUE   \* mutant
KeysInOrder == \A i \in 1 .. Len(input.keys) - 1 : input.keys[i] < input.keys[i + 1]

Validate ==
  /\ place = "validate"
  /\ place' = IF KeysInOrder THEN "inner" ELSE "refused"
  /\ UNCHANGED <<input, outer, inner, iSize, valOffset, offsets, indexOffset,
                 total, starts, pos>>

(* One pass of the inner loop: offsets from the header size assumed, the   *)
(* size of the index from the offsets, the header size from the total.     *)
LaidOutFrom(start) ==
  LET sums == Sums(input.sizes)
  IN  [i \in DOMAIN input.sizes |-> start + sums[i - 1]]
IndexSize(places) ==
  encodedSize(Count) + Total([i \in DOMAIN places |-> encodedSize(places[i])])

ChecksumForgotten(length, payload) == length - payload   \* mutant
ValOffsetFor(length, payload) == length - payload - input.csum
StillGrowing(new, old) == new < old                      \* mutant
Settled(new, old) == new = old

InnerPass ==
  /\ place = "inner"
  /\ offsets' = LaidOutFrom(valOffset + iSize)
  /\ indexOffset' = valOffset + iSize + DataSize
  /\ LET payload == iSize + DataSize + IndexSize(offsets')
     IN  /\ total' = computeLPLength(input, payload)
         /\ valOffset' = ValOffsetFor(total', payload)
  /\ inner' = inner + 1
  /\ place' = IF Settled(valOffset', valOffset) \/ inner' = 10 THEN "outer" ELSE "inner"
  /\ UNCHANGED <<input, outer, iSize, starts, pos>>

(* The end of a pass of the outer loop: is I_size what index_offset takes? *)
OuterPass ==
  /\ place = "outer"
  /\ outer' = outer + 1
  /\ iSize' = encodedSize(indexOffset)
  /\ IF Settled(iSize', iSize) \/ outer' = 10
     THEN place' = "write" /\ UNCHANGED <<inner, valOffset>>
     ELSE place' = "inner" /\ inner' = 0 /\ valOffset' = 0
  /\ UNCHANGED <<input, offsets, indexOffset, total, starts, pos>>

(* Header, index_offset, elements, index and checksum, one after another.  *)
Write ==
  /\ place = "write"
  /\ LET indexed == input.kind # "leaf"
         dataAt == HeaderLength(input, total) +
                     (IF indexed THEN encodedSize(indexOffset) ELSE 0)
     IN  /\ starts' = LaidOutFrom(dataAt)
         /\ pos' = dataAt + DataSize + input.csum +
                     (IF indexed THEN IndexSize(offsets) ELSE 0)
  /\ place' = "written"
  /\ UNCHANGED <<input, outer, inner, iSize, valOffset, offsets, indexOffset, total>>

Serialize == Validate \/ InnerPass \/ OuterPass \/ Write

-----------------------------------------------------------------------------
(* The readers of what was written: byte ranges [from, to).                *)

Bytes(from, to) == [from |-> from, to |-> to]
UpToTheEnd(i) == total                                   \* mutant
BoundaryAfter(i) == IF i < Len(offsets) THEN offsets[i + 1] ELSE indexOffset

elementBytesAt(i) == Bytes(offsets[i], BoundaryAfter(i))
valueAt(k) == Bytes(offsets[2 * k], BoundaryAfter(2 * k))

(* keyAt: the container at the key's offset, which knows its own length;   *)
(* 0 if no key begins there.                                               *)
keyAt(k) ==
  LET isKeyAt(j) == starts[2 * j - 1] = offsets[2 * k - 1]
  IN  IF \E j \in DOMAIN input.keys : isKeyAt(j)
      THEN input.keys[CHOOSE j \in DOMAIN input.keys : isKeyAt(j)] ELSE 0

payloadSlice == Bytes(HeaderLength(input, total), total - input.csum)
=============================================================================
