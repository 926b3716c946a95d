---------------------------- MODULE ArchiveFormat ----------------------------
(***************************************************************************)
(* The values mini_blar archives are made of, and the pure functions that  *)
(* build and check them (mini_blar.zig).                                   *)
(*                                                                         *)
(* A path is the sequence of its '/'-separated components, so "a/b.txt"    *)
(* is <<"a", "b.txt">>, "f" is <<"f">>, "a/" is <<"a", "">> and "" is      *)
(* <<"">>: splitting a string at its slashes loses nothing.  A serialized  *)
(* container is the record of what it holds; xxHash64 is an injective tag  *)
(* (collisions are not modelled).                                          *)
(***************************************************************************)
EXTENDS Integers, Sequences, FiniteSets, SequencesExt, Lists

CONSTANT
  CompressionEnabled  \* -Denable_compression: zstd module, else the stub

ASSUME CompressionAssumption == CompressionEnabled \in BOOLEAN

NoComp == "none"                      \* comp_id = null
CompIds == {NoComp, "zstd", "other"}  \* "other": every id but .zstd

NoError == "none"
Errors == {"OutOfMemory", "CompressionFailed", "UnsupportedCompression",
           "DuplicateKey"}

(* The fields of an ArchiveEntry that the properties tell apart: packed    *)
(* says that the path or jxl_source_format marks already-compressed data,  *)
(* xattrs are names, rfork says there is a resource fork, xh is the xh64   *)
(* the caller passed for a DIR.                                            *)
IsEntry(e) ==
  /\ e.kind \in {"file", "dir"}
  /\ e.path \in Seq(STRING) \ {<<>>}
  /\ e.size \in Nat
  /\ e.packed \in BOOLEAN
  /\ e.rfork \in BOOLEAN
  /\ e.xattrs \in Seq(STRING)

-----------------------------------------------------------------------------
(* Hashes.                                                                 *)

ZeroHash == <<"zero", <<>>>>
Checksum(container) == <<"xxhash64", container>>

computeMerkleHash(hashes) == <<"merkle", hashes>>

-----------------------------------------------------------------------------
(* Paths.                                                                  *)

(* lastIndexOfScalar(path, '/') finds a slash / the part before it.        *)
HasParent(path) == Len(path) > 1
ParentBeforeFirstSlash(path) == <<Head(path)>>
ParentPath(path) == Front(path)

isDirectChild(dirPath, childPath) ==
  /\ Len(childPath) = Len(dirPath) + 1
  /\ Front(childPath) = dirPath
  /\ Last(childPath) # ""

-----------------------------------------------------------------------------
(* FILE and DIR containers.                                                *)

Empty == [type |-> "empty"]   \* the placeholder slice in entry_elements

ForkKeys(e) == e.xattrs \o (IF e.rfork THEN <<"rf">> ELSE <<>>)
HasDuplicates(keys) == Cardinality(ToSet(keys)) # Len(keys)

Compresses(f, comp) == comp # NoComp /\ ~f.packed
Unsupported(f, comp) ==
  Compresses(f, comp) /\ (comp # "zstd" \/ ~CompressionEnabled)

(* serializeFileEntry: the container it returns, the errors it may return  *)
(* instead, and whether it can succeed.                                    *)
FileContainer(f, comp) ==
  [type  |-> "file",
   path  |-> f.path,
   data  |-> [comp |-> IF Compresses(f, comp) THEN "zstd" ELSE NoComp,
              body |-> f.body],
   forks |-> ToSet(ForkKeys(f))]

FileErrors(f, comp) ==
  {"OutOfMemory"} \cup
  IF Unsupported(f, comp)
  THEN {"UnsupportedCompression"}
  ELSE (IF Compresses(f, comp) THEN {"CompressionFailed"} ELSE {}) \cup
       (IF HasDuplicates(ForkKeys(f)) THEN {"DuplicateKey"} ELSE {})

FileSerializable(f, comp) ==
  ~Unsupported(f, comp) /\ ~HasDuplicates(ForkKeys(f))

(* serializeDirEntry.                                                      *)
DirContainer(d, xh64) ==
  [type |-> "dir", path |-> d.path, xattrs |-> ToSet(d.xattrs), xh |-> xh64]

DirSerializable(d) == ~HasDuplicates(d.xattrs)
DirErrors(d) ==
  {"OutOfMemory"} \cup
  (IF HasDuplicates(d.xattrs) THEN {"DuplicateKey"} ELSE {})

-----------------------------------------------------------------------------
(* Whole archives.                                                         *)

IsFile(e) == e.kind = "file"
IsDir(e) == e.kind = "dir"

FileIndices(entries) == {i \in DOMAIN entries : IsFile(entries[i])}
DirIndices(entries) == {i \in DOMAIN entries : IsDir(entries[i])}

Magic(entries) == IF DirIndices(entries) # {} THEN "BLAR" ELSE "MBAR"

Archive(entries, elements) == [magic |-> Magic(entries), body |-> elements]

(* ArchiveReader.verifyMerkleAt on the DIR at index i of an archive: its   *)
(* stored xh64 against the checksums of its direct child FILEs, in order.  *)
ChildChecksums(archive, dirPath) ==
  LET children == {i \in DOMAIN archive.body :
                     /\ archive.body[i].type = "file"
                     /\ isDirectChild(dirPath, archive.body[i].path)}
  IN  [k \in DOMAIN Listed(children) |-> Checksum(archive.body[Listed(children)[k]])]

verifyMerkleAt(archive, i) ==
  LET dir == archive.body[i]
      hashes == ChildChecksums(archive, dir.path)
  IN  dir.xh = IF hashes = <<>> THEN ZeroHash ELSE computeMerkleHash(hashes)
=============================================================================
